---- MODULE Spec2Model ----
(***************************************************************************)
(* Verification model of the slay_canvas backend.                          *)
(*                                                                         *)
(* The module holds several specifications over one set of variables:      *)
(*   SpecWorkflow  ai/workflows.py + ai/agents.py: one media pipeline run   *)
(*   SpecOrch      ai/orchestrator.py: active jobs, job history, batches    *)
(*   SpecBatch     ai/orchestrator.py: one batch call, fair scheduling      *)
(*   SpecAi        app/api/ai.py: process-media and its background tasks    *)
(*   SpecStats     ai/orchestrator.py get_system_stats + api/ai.py health   *)
(*   SpecUsers     app/api/auth*.py + user_service.py: register/login/OAuth *)
(*   SpecLogin     app/api/auth*.py + user_service.py: login, deactivation  *)
(*   SpecOtp       app/utils/security.py OTPManager + password reset        *)
(*   SpecOtpManager  app/utils/security.py OTPManager called directly       *)
(*   SpecApi       app/api/{boards,workspaces,assets,nodes,chatmessages}.py *)
(* Each specification moves its own variables and leaves the others alone.  *)
(***************************************************************************)
EXTENDS Integers, Sequences, FiniteSets, TLC

VARIABLES
    wf,             \* workflow runs: run id -> AgentState + graph position
    active_jobs,    \* AIOrchestrator.active_jobs: media id -> processing_status
    job_history,    \* AIOrchestrator.job_history
    execs,          \* process_media_file executions
    batches,        \* batch_process_media calls (each with its semaphore)
    users,          \* users table
    authReqs,       \* auth requests in flight / answered
    oauth_states,   \* oauth_states of the auth router
    router,         \* the auth router the app mounted: auth.py or auth_db.py
    otp_storage,    \* OTPManager._otp_storage
    otpReqs,        \* password-reset requests, in flight and answered
    now,            \* datetime.utcnow(), in minutes
    otp_calls,      \* per email: the OTPManager calls since its last generate_otp
    boards,         \* boards table: id -> row
    board_seq,      \* the last id the boards table assigned
    boardReqs,      \* board requests, in flight and answered
    id_seq,         \* the last ids assigned in the workspace-scoped tables
    workspaces,     \* workspaces table
    assets,         \* assets table
    nodes,          \* nodes table
    chat_messages,  \* chat_messages table
    apiReqs,        \* workspace, asset, node and chat requests answered
    aiReqs          \* requests to the AI endpoints (api/ai.py) answered

varsWf    == <<wf>>
varsOrch  == <<active_jobs, job_history, execs, batches>>
varsUsers == <<users, authReqs, oauth_states, router>>
varsOtp   == <<otp_storage, otpReqs, now>>
varsOtpManager == <<otp_calls>>
varsBoards == <<boards, board_seq, boardReqs>>
varsApi   == <<id_seq, workspaces, assets, nodes, chat_messages, apiReqs>>
varsAi    == <<aiReqs>>
vars      == <<wf, active_jobs, job_history, execs, batches, users, authReqs, oauth_states, router,
               otp_storage, otpReqs, now, otp_calls, boards, board_seq, boardReqs,
               id_seq, workspaces, assets, nodes, chat_messages, apiReqs, aiReqs>>

(***************************************************************************)
(* Bounds                                                                  *)
(***************************************************************************)
NumRuns == 2
NumMedia == 2
MaxExecs == 4
NumBatches == 2
NumAuthReqs == 2
NumOAuthStates == 2
NumOtpReqs == 3
NumBoardReqs == 2
NumApiReqs == 2
NumAiReqs == 3
MaxHistory == 5
MaxBoardId == 2
ClockStep == 10
MaxTime == 20
MaxGenerates == 2
MaxVerifies == 5

Runs == 1..NumRuns

(***************************************************************************)
(* ai/agents.py: AgentState and the three agents                           *)
(***************************************************************************)
FileTypes == {"audio", "video", "image", "document", "other"}

Stages == {"transcribe", "analyze", "generate_content"}

\* AgentState(media_file_id, file_path, file_type, metadata) with the defaults
\* of the remaining fields.
AgentState(ft) ==
    [file_type         |-> ft,
     transcription     |-> "None",
     summary           |-> "None",
     tags              |-> "empty",
     insights          |-> "empty",
     content_generated |-> "empty",
     errors            |-> <<>>,
     processing_status |-> "pending"]

\* TranscriptionAgent.process; fail: _transcribe_file raises.
TranscriptionAgent_process(s, fail) ==
    IF s.file_type \notin {"audio", "video"}
    THEN [s EXCEPT !.processing_status = "skipped"]
    ELSE IF fail
         THEN [s EXCEPT !.errors = Append(@, "Transcription error"),
                        !.processing_status = "error"]
         ELSE [s EXCEPT !.transcription = "Transcription",
                        !.processing_status = "transcribed"]

\* AnalysisAgent.process; failAt: the assignment whose right-hand side raises
\* ("none": no failure). The assignments before it have taken effect.
AnalysisFailPoints == {"none", "summary", "tags", "insights"}

AnalysisAgent_process(s, failAt) ==
    LET s1 == IF failAt = "summary" THEN s ELSE [s EXCEPT !.summary = "Summary"]
        s2 == IF failAt \in {"summary", "tags"} THEN s1 ELSE [s1 EXCEPT !.tags = "tags"]
        s3 == IF failAt # "none" THEN s2 ELSE [s2 EXCEPT !.insights = "insights"]
    IN  IF failAt = "none"
        THEN [s3 EXCEPT !.processing_status = "analyzed"]
        ELSE [s3 EXCEPT !.errors = Append(@, "Analysis error"),
                        !.processing_status = "error"]

\* ContentGenerationAgent.process; fail: one of the four generators raises.
ContentGenerationAgent_process(s, fail) ==
    IF fail
    THEN [s EXCEPT !.errors = Append(@, "Content generation error"),
                   !.processing_status = "error"]
    ELSE [s EXCEPT !.content_generated = "content",
                   !.processing_status = "completed"]

(***************************************************************************)
(* ai/workflows.py: MediaProcessingWorkflow                                *)
(***************************************************************************)
\* A routing that looks at the file type alone, which _should_analyze does not:
\* audio and video go on to analyze whether or not there is a transcription.
should_analyze_FileTypeOnly(s) ==
    IF s.file_type \in {"audio", "video", "image", "document"}
    THEN "analyze"
    ELSE "skip"

\* _should_analyze: the conditional after the transcribe node.
should_analyze(s) ==
    IF s.file_type \in {"audio", "video"} /\ s.transcription # "None"
    THEN "analyze"
    ELSE IF s.file_type \in {"image", "document"}
         THEN "analyze"
         ELSE "skip"

\* A graph with a retry edge, which _build_workflow does not have: a run whose
\* status is "error" after generate_content goes back to transcribe.
WorkflowEdge_Retry(node, s) ==
    CASE node = "transcribe" ->
            IF should_analyze(s) = "analyze" THEN "analyze" ELSE "generate_content"
      [] node = "analyze" -> "generate_content"
      [] node = "generate_content" ->
            IF s.processing_status = "error" THEN "transcribe" ELSE "END"

\* _build_workflow: the node that follows `node` once it produced state s.
WorkflowEdge(node, s) ==
    CASE node = "transcribe" ->
            IF should_analyze(s) = "analyze" THEN "analyze" ELSE "generate_content"
      [] node = "analyze" -> "generate_content"
      [] node = "generate_content" -> "END"

\* The message a failing stage appends to errors.
StageError(stage) ==
    CASE stage = "transcribe" -> "Transcription error"
      [] stage = "analyze" -> "Analysis error"
      [] stage = "generate_content" -> "Content generation error"

\* A run that process_media has not been called for yet.
IdleRun ==
    [node |-> "idle", state |-> AgentState("other"), visited |-> <<>>, failed |-> {}]

\* process_media: build the initial state and enter the graph at its entry point.
process_media(r, ft) ==
    /\ wf[r].node = "idle"
    /\ wf' = [wf EXCEPT ![r] = [node |-> "transcribe", state |-> AgentState(ft),
                                visited |-> <<>>, failed |-> {}]]

\* One graph step: run the node, then follow its outgoing edge.
RunNode(r, node, s2, didFail) ==
    wf' = [wf EXCEPT ![r] = [node    |-> WorkflowEdge(node, s2),
                             state   |-> s2,
                             visited |-> Append(wf[r].visited, node),
                             failed  |-> IF didFail THEN wf[r].failed \cup {node}
                                                    ELSE wf[r].failed]]

transcribe_node(r, fail) ==
    /\ wf[r].node = "transcribe"
    /\ fail => wf[r].state.file_type \in {"audio", "video"}
    /\ RunNode(r, "transcribe", TranscriptionAgent_process(wf[r].state, fail), fail)

analyze_node(r, failAt) ==
    /\ wf[r].node = "analyze"
    /\ RunNode(r, "analyze", AnalysisAgent_process(wf[r].state, failAt), failAt # "none")

generate_content_node(r, fail) ==
    /\ wf[r].node = "generate_content"
    /\ RunNode(r, "generate_content", ContentGenerationAgent_process(wf[r].state, fail), fail)

OtherThanWf == <<varsOrch, varsUsers, varsOtp, varsBoards, varsApi, varsOtpManager, varsAi>>

WfProcessMedia == \E r \in Runs, ft \in FileTypes : process_media(r, ft) /\ UNCHANGED OtherThanWf
WfTranscribe == \E r \in Runs, fail \in BOOLEAN : transcribe_node(r, fail) /\ UNCHANGED OtherThanWf
WfAnalyze == \E r \in Runs, failAt \in AnalysisFailPoints : analyze_node(r, failAt) /\ UNCHANGED OtherThanWf
WfGenerate == \E r \in Runs, fail \in BOOLEAN : generate_content_node(r, fail) /\ UNCHANGED OtherThanWf

NextWf == WfProcessMedia \/ WfTranscribe \/ WfAnalyze \/ WfGenerate

\* Every step one run can take inside the graph.
WfStep(r) ==
    \/ \E fail \in BOOLEAN : transcribe_node(r, fail)
    \/ \E failAt \in AnalysisFailPoints : analyze_node(r, failAt)
    \/ \E fail \in BOOLEAN : generate_content_node(r, fail)

InitWf == wf = [r \in Runs |-> IdleRun]

(***************************************************************************)
(* ai/orchestrator.py: AIOrchestrator                                      *)
(***************************************************************************)
MediaIds == 1..NumMedia

\* The file_type column of the stored media files.
MediaFileType(m) == IF m % 2 = 1 THEN "audio" ELSE "image"

\* asyncio.Semaphore(3) in batch_process_media.
SemaphoreLimit == 3

\* Which stage raises during one workflow run.
NoFailure == [transcribe |-> FALSE, analyze |-> "none", generate_content |-> FALSE]

StageFailures ==
    {NoFailure,
     [NoFailure EXCEPT !.generate_content = TRUE]}

\* app.ainvoke(initial_state): the graph run from `node` to END in one piece.
RECURSIVE RunGraph(_, _, _)
RunGraph(node, s, f) ==
    IF node = "END"
    THEN s
    ELSE LET s2 == CASE node = "transcribe" ->
                          TranscriptionAgent_process(s,
                              f.transcribe /\ s.file_type \in {"audio", "video"})
                     [] node = "analyze" -> AnalysisAgent_process(s, f.analyze)
                     [] node = "generate_content" ->
                          ContentGenerationAgent_process(s, f.generate_content)
         IN  RunGraph(WorkflowEdge(node, s2), s2, f)

\* MediaProcessingWorkflow.process_media as the orchestrator sees it: the
\* returned state's processing_status and errors.
ProcessMediaResult(ft, f) ==
    LET s == RunGraph("transcribe", AgentState(ft), f)
    IN  [processing_status |-> s.processing_status, errors |-> s.errors]

NoResult == [processing_status |-> "none", errors |-> <<>>]

\* error_state of the exception handler.
ErrorState == [processing_status |-> "error", errors |-> <<"exception">>]

\* dict operations
DictPut(d, k, v) == [x \in (DOMAIN d) \cup {k} |-> IF x = k THEN v ELSE d[x]]
DictDel(d, k) == [x \in (DOMAIN d) \ {k} |-> d[x]]

ExecIds == DOMAIN execs
BatchIds == DOMAIN batches

ExecsOfBatch(b) == {e \in ExecIds : execs[e].batch = b}

\* Mutant of SemaphoreFree: the semaphore never blocks.
SemaphoreFree_NoLimit(b) == TRUE

\* A batch's semaphore admits one more holder.
SemaphoreFree(b) == batches[b].sem > 0

\* New executions for the files of a batch, waiting at `async with semaphore`.
RECURSIVE BatchExecs(_, _)
BatchExecs(files, b) ==
    IF files = <<>>
    THEN <<>>
    ELSE <<[media |-> Head(files), batch |-> b, pc |-> "waiting", result |-> NoResult]>>
         \o BatchExecs(Tail(files), b)

\* batch_process_media up to asyncio.gather: a semaphore of its own and one
\* process_with_semaphore task per file. (The coroutines collected in `tasks`
\* are never awaited and never run.)
batch_process_media(files) ==
    /\ Len(batches) < NumBatches
    /\ Len(execs) + Len(files) <= MaxExecs
    /\ batches' = Append(batches, [files |-> files, sem |-> SemaphoreLimit,
                                   returned |-> FALSE, results |-> <<>>])
    /\ execs' = execs \o BatchExecs(files, Len(batches) + 1)
    /\ UNCHANGED <<active_jobs, job_history>>

\* process_media_file, lines 32-50: set the status, register the job in
\* active_jobs and enter the workflow (first suspension point).
process_media_file_start(e) ==
    /\ active_jobs' = DictPut(active_jobs, execs[e].media, "started")
    /\ execs' = [execs EXCEPT ![e].pc = "running"]
    /\ UNCHANGED job_history

\* process_with_semaphore: enter `async with semaphore`, then start the job.
process_with_semaphore(e) ==
    /\ execs[e].pc = "waiting"
    /\ execs[e].batch # 0
    /\ SemaphoreFree(execs[e].batch)
    /\ batches' = [batches EXCEPT ![execs[e].batch].sem = @ - 1]
    /\ process_media_file_start(e)

\* Leaving `async with semaphore` when the job of a batch returns.
ReleaseSemaphore(e) ==
    IF execs[e].batch # 0
    THEN batches' = [batches EXCEPT ![execs[e].batch].sem = @ + 1]
    ELSE UNCHANGED batches

\* process_media_file, lines 52-66: the workflow returned `result`; save it,
\* drop the job from active_jobs, append it to job_history, return.
process_media_file_return(e, result) ==
    /\ execs[e].pc = "running"
    /\ active_jobs' = DictDel(active_jobs, execs[e].media)
    /\ job_history' = Append(job_history,
                             [media_file_id |-> execs[e].media,
                              status        |-> result.processing_status,
                              errors        |-> result.errors])
    /\ execs' = [execs EXCEPT ![e].pc = "done", ![e].result = result]
    /\ ReleaseSemaphore(e)

\* process_media_file, lines 68-83: process_media or _save_ai_results raised.
process_media_file_except(e) ==
    /\ execs[e].pc = "running"
    /\ active_jobs' = DictDel(active_jobs, execs[e].media)
    /\ execs' = [execs EXCEPT ![e].pc = "done", ![e].result = ErrorState]
    /\ ReleaseSemaphore(e)
    /\ UNCHANGED job_history

\* Mutant of GatherOrder: the tasks in the opposite order.
GatherOrder_Reversed(b) ==
    LET ids == ExecsOfBatch(b)
    IN  [i \in 1..Cardinality(ids) |->
            CHOOSE e \in ids : Cardinality({x \in ids : x > e}) = i - 1]

\* limited_tasks: the process_with_semaphore tasks of a batch in the order
\* of media_files, which is the order asyncio.gather returns results in.
GatherOrder(b) ==
    LET ids == ExecsOfBatch(b)
    IN  [i \in 1..Cardinality(ids) |->
            CHOOSE e \in ids : Cardinality({x \in ids : x < e}) = i - 1]

\* batch_process_media, lines 150-152: asyncio.gather has every result, the
\* call returns them. A result is the AgentState process_media_file returned.
batch_process_media_return(b) ==
    /\ ~batches[b].returned
    /\ \A e \in ExecsOfBatch(b) : execs[e].pc = "done"
    /\ batches' = [batches EXCEPT
                      ![b].returned = TRUE,
                      ![b].results = [i \in DOMAIN GatherOrder(b) |->
                                         [media_file_id |-> execs[GatherOrder(b)[i]].media,
                                          processing_status |-> execs[GatherOrder(b)[i]].result.processing_status,
                                          errors |-> execs[GatherOrder(b)[i]].result.errors]]]
    /\ UNCHANGED <<active_jobs, job_history, execs>>

\* The media-file lists a batch is called with.
RECURSIVE SeqsUpTo(_, _)
SeqsUpTo(S, n) ==
    IF n = 0 THEN {<<>>}
    ELSE LET shorter == SeqsUpTo(S, n - 1)
         IN  shorter \cup {Append(sq, x) : sq \in {t \in shorter : Len(t) = n - 1}, x \in S}

BatchInputs == SeqsUpTo(MediaIds, MaxExecs) \ {<<>>}

OtherThanOrch == <<varsWf, varsUsers, varsOtp, varsBoards, varsApi, varsOtpManager, varsAi>>

OrchBatch == \E files \in BatchInputs : batch_process_media(files) /\ UNCHANGED OtherThanOrch
OrchAcquire == \E e \in ExecIds : process_with_semaphore(e) /\ UNCHANGED OtherThanOrch
OrchReturn == \E e \in ExecIds, f \in StageFailures : process_media_file_return(e, ProcessMediaResult(MediaFileType(execs[e].media), f)) /\ UNCHANGED OtherThanOrch
OrchExcept == \E e \in ExecIds : process_media_file_except(e) /\ UNCHANGED OtherThanOrch

OrchGather == \E b \in BatchIds : batch_process_media_return(b) /\ UNCHANGED OtherThanOrch

NextOrch == OrchBatch \/ OrchAcquire \/ OrchReturn \/ OrchExcept \/ OrchGather

\* A single batch_process_media call and the tasks it starts.
OrchBatchSingle == batches = <<>> /\ OrchBatch

NextBatch == OrchBatchSingle \/ OrchAcquire \/ OrchReturn \/ OrchExcept \/ OrchGather

\* The event loop runs every task that can run: a task waiting at a free
\* semaphore enters, a workflow that was started comes back (it is a single
\* pass over at most three stages), and gather returns once it has every
\* result.
FairOrch ==
    /\ WF_vars(OrchAcquire)
    /\ WF_vars(OrchReturn \/ OrchExcept)
    /\ WF_vars(OrchGather)

InitOrch == active_jobs = <<>> /\ job_history = <<>> /\ execs = <<>> /\ batches = <<>>

InitAi == aiReqs = <<>>

(***************************************************************************)
(* app/api/ai.py: process-media and health, on the module's ai_orchestrator *)
(***************************************************************************)
\* AIOrchestrator.get_processing_status: the entry of active_jobs, else the
\* latest record of job_history, else None.
NoStatus == [found |-> FALSE, status |-> "None", is_active |-> FALSE]

get_processing_status(media_file_id) ==
    IF media_file_id \in DOMAIN active_jobs
    THEN [found |-> TRUE, status |-> active_jobs[media_file_id], is_active |-> TRUE]
    ELSE IF \E i \in DOMAIN job_history : job_history[i].media_file_id = media_file_id
         THEN LET i == CHOOSE k \in DOMAIN job_history :
                          /\ job_history[k].media_file_id = media_file_id
                          /\ \A j \in DOMAIN job_history :
                                job_history[j].media_file_id = media_file_id => j <= k
              IN  [found |-> TRUE, status |-> job_history[i].status, is_active |-> FALSE]
         ELSE NoStatus

\* The media_files rows: every file belongs to user 1.
MediaOwner(media_file_id) == 1

\* The callers of the AI endpoints: 0 carries a token that verify_token
\* refuses, 1 and 2 are users.
AiCallers == {0, 1, 2}

\* The ids requests ask for: the stored files and one that is not stored.
AskedMediaIds == 1..(NumMedia + 1)

AiResp(caller, media_file_id, force_reprocess, code, message, exec) ==
    [kind |-> "process-media", caller |-> caller, media_file_id |-> media_file_id,
     force_reprocess |-> force_reprocess, code |-> code, message |-> message,
     exec |-> exec]

\* ai.py 82-83: current_status and current_status["is_active"] and not
\* request.force_reprocess.
AlreadyProcessing(media_file_id, force_reprocess) ==
    /\ get_processing_status(media_file_id).found
    /\ get_processing_status(media_file_id).is_active
    /\ ~force_reprocess

\* POST /process-media (ai.py 52-100). The background task is added to the
\* response and starts only after the response has been sent.
ai_process_media_file(caller, media_file_id, force_reprocess) ==
    /\ Len(aiReqs) < NumAiReqs
    /\ IF caller = 0
       THEN /\ aiReqs' = Append(aiReqs, AiResp(0, 0, FALSE, 401, "Could not validate credentials", 0))
            /\ UNCHANGED execs
       ELSE IF media_file_id \notin MediaIds
       THEN /\ aiReqs' = Append(aiReqs, AiResp(caller, 0, FALSE, 404, "Media file not found", 0))
            /\ UNCHANGED execs
       ELSE IF MediaOwner(media_file_id) # caller
       THEN /\ aiReqs' = Append(aiReqs, AiResp(caller, media_file_id, FALSE, 403, "Access denied", 0))
            /\ UNCHANGED execs
       ELSE IF AlreadyProcessing(media_file_id, force_reprocess)
       THEN /\ aiReqs' = Append(aiReqs, AiResp(caller, media_file_id, force_reprocess, 200,
                                               "Media file is already being processed", 0))
            /\ UNCHANGED execs
       ELSE /\ Len(execs) < MaxExecs
            /\ execs' = Append(execs, [media |-> media_file_id, batch |-> 0,
                                       pc |-> "scheduled", result |-> NoResult])
            /\ aiReqs' = Append(aiReqs, AiResp(caller, media_file_id, force_reprocess, 200,
                                               "Media processing started", Len(execs) + 1))
    /\ UNCHANGED <<active_jobs, job_history, batches>>

\* BackgroundTasks runs ai_orchestrator.process_media_file(db, media_file).
background_task_run(e) ==
    /\ execs[e].pc = "scheduled"
    /\ execs[e].batch = 0
    /\ process_media_file_start(e)
    /\ UNCHANGED <<batches, aiReqs>>

\* sum(1 for job in job_history if job["status"] == "completed")
RECURSIVE successful_jobs(_)
successful_jobs(history) ==
    IF history = <<>>
    THEN 0
    ELSE (IF Head(history).status = "completed" THEN 1 ELSE 0) + successful_jobs(Tail(history))

\* successful_jobs / total_processed if total_processed > 0 else 0, as the
\* fraction <<numerator, denominator>>.
success_rate(successful, total_processed) ==
    IF total_processed > 0 THEN <<successful, total_processed>> ELSE <<0, 1>>

\* Mutant of IsOperational: success_rate >= 0.8.
IsOperational_AtLeast(rate) == 10 * rate[1] >= 8 * rate[2]

\* success_rate > 0.8
IsOperational(rate) == 10 * rate[1] > 8 * rate[2]

\* AIOrchestrator.get_system_stats.
get_system_stats ==
    LET total_processed == Len(job_history)
        rate == success_rate(successful_jobs(job_history), total_processed)
    IN  [total_processed |-> total_processed,
         active_jobs     |-> Cardinality(DOMAIN active_jobs),
         success_rate    |-> rate,
         system_status   |-> IF IsOperational(rate) THEN "operational" ELSE "degraded"]

\* GET /health (ai.py 163-177).
ai_health_check ==
    /\ Len(aiReqs) < NumAiReqs
    /\ LET stats == get_system_stats IN
       aiReqs' = Append(aiReqs,
                        [kind |-> "health", stats |-> stats,
                         status |-> IF stats.system_status = "operational"
                                    THEN "healthy" ELSE "degraded",
                         message |-> IF stats.system_status = "operational"
                                     THEN "AI system is operational"
                                     ELSE "AI system performance is degraded"])
    /\ UNCHANGED <<active_jobs, job_history, execs, batches>>

\* The records process_media_file appends to job_history.
JobRecords ==
    {[media_file_id |-> 1,
      status |-> ProcessMediaResult(MediaFileType(1), f).processing_status,
      errors |-> ProcessMediaResult(MediaFileType(1), f).errors] : f \in StageFailures}

\* The orchestrator after some jobs: a history of up to MaxHistory records
\* and some files being processed.
InitStats ==
    /\ job_history \in SeqsUpTo(JobRecords, MaxHistory)
    /\ active_jobs \in {[m \in D |-> "started"] : D \in SUBSET MediaIds}
    /\ execs = <<>> /\ batches = <<>> /\ aiReqs = <<>>

OtherThanAi == <<varsWf, varsUsers, varsOtp, varsBoards, varsApi, varsOtpManager>>

AiProcessMedia == \E caller \in AiCallers, media_file_id \in AskedMediaIds, force_reprocess \in BOOLEAN : ai_process_media_file(caller, media_file_id, force_reprocess) /\ UNCHANGED OtherThanAi
AiTaskRun == \E e \in ExecIds : background_task_run(e) /\ UNCHANGED OtherThanAi
AiTaskReturn == \E e \in ExecIds, f \in StageFailures : process_media_file_return(e, ProcessMediaResult(MediaFileType(execs[e].media), f)) /\ UNCHANGED <<OtherThanAi, aiReqs>>
AiTaskExcept == \E e \in ExecIds : process_media_file_except(e) /\ UNCHANGED <<OtherThanAi, aiReqs>>

AiHealth == ai_health_check /\ UNCHANGED OtherThanAi

NextStats == AiHealth

NextAi == AiProcessMedia \/ AiTaskRun \/ AiTaskReturn \/ AiTaskExcept

(***************************************************************************)
(* app/models/user.py, app/services/user_service.py, app/utils/security.py, *)
(* app/api/auth.py and app/api/auth_db.py: users, register, login, OAuth    *)
(***************************************************************************)
Emails == {"a@x.io", "b@x.io"}

GoogleIds == {"g1", "g2"}

\* Passwords by what validate_password_strength looks at.
StrongPw == [id |-> "pw1", len |-> 10, upper |-> TRUE, lower |-> TRUE, digit |-> TRUE, special |-> TRUE]
WeakPw == [id |-> "pw2", len |-> 6, upper |-> FALSE, lower |-> TRUE, digit |-> TRUE, special |-> FALSE]

Passwords == {StrongPw, WeakPw}

\* The new passwords of reset-password requests.
NewPw == [id |-> "pw3", len |-> 12, upper |-> TRUE, lower |-> TRUE, digit |-> TRUE, special |-> TRUE]
ResetPasswords == {NewPw, WeakPw}

\* PasswordHasher.validate_password_strength (its first component).
validate_password_strength(p) ==
    /\ ~(p.len < 8)
    /\ p.upper
    /\ p.lower
    /\ p.digit
    /\ p.special

\* PasswordHasher.hash_password / verify_password (bcrypt, salt left out).
hash_password(p) == "bcrypt:" \o p.id
verify_password(p, h) == h = "bcrypt:" \o p.id

\* create_access_token: a JWT signed with settings.SECRET_KEY.
create_access_token(sub) == [signer |-> "app", sub |-> sub]

NoToken == [signer |-> "none", sub |-> 0]

\* The access token Google hands out in the code exchange.
GoogleToken == [signer |-> "google", sub |-> 0]

UserIds == DOMAIN users

\* UserService.get_user_by_email / get_user_by_google_id: the id of the row,
\* 0 for None.
get_user_by_email(email) ==
    IF \E u \in UserIds : users[u].email = email
    THEN CHOOSE u \in UserIds : users[u].email = email
    ELSE 0

get_user_by_google_id(gid) ==
    IF \E u \in UserIds : users[u].google_id = gid
    THEN CHOOSE u \in UserIds : users[u].google_id = gid
    ELSE 0

\* Mutant of UniqueOk: the users table without its unique constraints.
UniqueOk_NoConstraint(u, row) == TRUE

\* User.email unique=True, User.google_id unique=True (NULLs do not clash):
\* whether the database accepts `row` as the row of id u.
UniqueOk(u, row) ==
    \A v \in UserIds \ {u} :
        /\ users[v].email # row.email
        /\ row.google_id # "None" => users[v].google_id # row.google_id

NoResp == [status |-> 0, detail |-> "", token |-> NoToken, user_id |-> 0]

Resp(status, detail) == [status |-> status, detail |-> detail, token |-> NoToken, user_id |-> 0]

\* Mutant of AuthResponse: the token is issued without the user's id.
AuthResponse_NoSub(detail, uid) ==
    [status |-> 200, detail |-> detail, token |-> create_access_token(0), user_id |-> uid]

\* AuthResponse(message, user, access_token) with a fresh token for the user.
AuthResponse(detail, uid) ==
    [status |-> 200, detail |-> detail, token |-> create_access_token(uid), user_id |-> uid]

ReqIds == DOMAIN authReqs

NewReq(kind, email, pw, gid, pc, resp) ==
    [kind |-> kind, email |-> email, password |-> pw, gid |-> gid,
     query |-> "none", state_kind |-> "none",
     pc |-> pc, uid |-> 0, stamp |-> Len(authReqs) + 1, resp |-> resp]

Answer(r, resp) == authReqs' = [authReqs EXCEPT ![r].pc = "done", ![r].resp = resp]

\* ---- POST /register (auth.py 198-244, auth_db.py 150-196) ----
\* The two password validations, before the try block.
register_user_begin(email, pw, confirm) ==
    /\ Len(authReqs) < NumAuthReqs
    /\ authReqs' = Append(authReqs,
          IF pw # confirm
          THEN NewReq("register", email, pw, "None", "done", Resp(400, "Passwords do not match"))
          ELSE IF ~validate_password_strength(pw)
               THEN NewReq("register", email, pw, "None", "done", Resp(400, "Password requirements not met"))
               ELSE NewReq("register", email, pw, "None", "reg_check", NoResp))
    /\ UNCHANGED <<users, oauth_states, router>>

\* UserService.register_user up to `return None`: the email lookup. The
\* HTTPException(400) the route raises for None is raised inside its try
\* block, whose `except Exception` turns it into 500.
register_user_check(r) ==
    /\ authReqs[r].pc = "reg_check"
    /\ LET existing == get_user_by_email(authReqs[r].email) IN
       IF existing # 0
       THEN authReqs' = [authReqs EXCEPT ![r].pc = "done", ![r].uid = existing,
                                         ![r].resp = Resp(500, "Registration failed")]
       ELSE authReqs' = [authReqs EXCEPT ![r].pc = "reg_commit"]
    /\ UNCHANGED <<users, oauth_states, router>>

\* UserService.register_user from db.add on, then the token and the response.
register_user_commit(r) ==
    /\ authReqs[r].pc = "reg_commit"
    /\ LET row == [email |-> authReqs[r].email,
                   hashed_password |-> hash_password(authReqs[r].password),
                   google_id |-> "None", is_active |-> TRUE, provider |-> "email",
                   last_login |-> 0]
           uid == Len(users) + 1
       IN  IF UniqueOk(0, row)
           THEN /\ users' = Append(users, row)
                /\ Answer(r, AuthResponse("Registration successful", uid))
           ELSE /\ Answer(r, Resp(500, "Registration failed"))
                /\ UNCHANGED users
    /\ UNCHANGED <<oauth_states, router>>

\* ---- POST /login (auth.py 247-286) ----
login_user_begin(email, pw) ==
    /\ Len(authReqs) < NumAuthReqs
    /\ authReqs' = Append(authReqs, NewReq("login", email, pw, "None", "login_read", NoResp))
    /\ UNCHANGED <<users, oauth_states, router>>

\* Mutant of authenticate_user_read: the is_active test is left out.
authenticate_user_read_NoActiveCheck(r) ==
    /\ authReqs[r].pc = "login_read"
    /\ LET u == get_user_by_email(authReqs[r].email) IN
       IF \/ u = 0
          \/ users[u].hashed_password = "None"
          \/ ~verify_password(authReqs[r].password, users[u].hashed_password)
       THEN Answer(r, Resp(401, "Invalid email or password"))
       ELSE authReqs' = [authReqs EXCEPT ![r].pc = "login_commit", ![r].uid = u]
    /\ UNCHANGED <<users, oauth_states, router>>

\* UserService.authenticate_user up to its commit.
authenticate_user_read(r) ==
    /\ authReqs[r].pc = "login_read"
    /\ LET u == get_user_by_email(authReqs[r].email) IN
       IF \/ u = 0
          \/ users[u].hashed_password = "None"
          \/ ~verify_password(authReqs[r].password, users[u].hashed_password)
          \/ ~users[u].is_active
       THEN Answer(r, Resp(401, "Invalid email or password"))
       ELSE authReqs' = [authReqs EXCEPT ![r].pc = "login_commit", ![r].uid = u]
    /\ UNCHANGED <<users, oauth_states, router>>

\* authenticate_user's last_login update, then the token and the response.
authenticate_user_commit(r) ==
    /\ authReqs[r].pc = "login_commit"
    /\ users' = [users EXCEPT ![authReqs[r].uid].last_login = authReqs[r].stamp]
    /\ Answer(r, AuthResponse("Login successful", authReqs[r].uid))
    /\ UNCHANGED <<oauth_states, router>>

\* UserService.deactivate_user (user_service.py 185-195).
deactivate_user(user_id) ==
    /\ user_id \in UserIds
    /\ users[user_id].is_active
    /\ users' = [users EXCEPT ![user_id].is_active = FALSE]
    /\ UNCHANGED <<authReqs, oauth_states, router>>

\* ---- GET /google/login ----
google_login ==
    /\ oauth_states.issued < NumOAuthStates
    /\ oauth_states' = [issued |-> oauth_states.issued + 1,
                        live   |-> oauth_states.live \cup {oauth_states.issued + 1}]
    /\ UNCHANGED <<users, authReqs, router>>

\* ---- GET /google/callback (auth.py 72-93, auth_db.py 49-63) ----
\* The checks without the test of the state against oauth_states.
callback_precheck_NoStateCheck(query, state) ==
    IF query = "error" /\ router = "auth" THEN 400
    ELSE IF query = "missing" THEN (IF router = "auth" THEN 400 ELSE 422)
    ELSE 0

\* The checks before the exchange. query: "ok", "error" (an error parameter),
\* "missing" (no code or state); state: the state parameter; 0 when the
\* request passes them, else the status it is turned down with.
callback_precheck(query, state) ==
    IF query = "error" /\ router = "auth" THEN 400
    ELSE IF query = "missing" THEN (IF router = "auth" THEN 400 ELSE 422)
    ELSE IF state \notin oauth_states.live THEN 400
    ELSE 0

callback_reject_detail(query, state) ==
    IF query = "error" /\ router = "auth" THEN "OAuth error"
    ELSE IF query = "missing"
         THEN (IF router = "auth" THEN "Missing code or state parameter" ELSE "validation error")
         ELSE "Invalid state parameter"

\* What a state parameter is to oauth_states when the callback arrives: a key
\* of it ("live"), a key that was deleted ("used"), or never a key ("unknown").
\* Kept with the request for the record; the handler does not tell the last two apart.
StateKind(state) ==
    IF state \in oauth_states.live THEN "live"
    ELSE IF state \in 1..oauth_states.issued THEN "used"
    ELSE "unknown"

\* A callback turned down before the exchange.
google_callback_reject(query, state) ==
    /\ Len(authReqs) < NumAuthReqs
    /\ callback_precheck(query, state) # 0
    /\ authReqs' = Append(authReqs,
          [NewReq("oauth", "None", WeakPw, "None", "done",
                  Resp(callback_precheck(query, state), callback_reject_detail(query, state)))
             EXCEPT !.query = query, !.state_kind = StateKind(state)])
    /\ UNCHANGED <<users, oauth_states, router>>

\* A callback that passes the checks: its state is consumed. gid, email: what
\* Google will report for the code.
google_callback_begin(state, gid, email) ==
    /\ Len(authReqs) < NumAuthReqs
    /\ callback_precheck("ok", state) = 0
    /\ oauth_states' = [oauth_states EXCEPT !.live = @ \ {state}]
    /\ authReqs' = Append(authReqs,
          [NewReq("oauth", email, WeakPw, gid, "oauth_exchange", NoResp)
             EXCEPT !.query = "ok", !.state_kind = StateKind(state)])
    /\ UNCHANGED <<users, router>>

\* The code-for-token exchange and the userinfo request; ok: Google answers
\* both. Either way a failure ends in the outer handler's 500.
google_callback_exchange(r, ok) ==
    /\ authReqs[r].pc = "oauth_exchange"
    /\ IF ok
       THEN authReqs' = [authReqs EXCEPT ![r].pc = "oauth_by_gid"]
       ELSE Answer(r, Resp(500, IF router = "auth" THEN "Failed to exchange code"
                                                  ELSE "Authentication failed"))
    /\ UNCHANGED <<users, oauth_states, router>>

\* create_or_update_oauth_user failed (its commit raised): auth.py falls back
\* to the response without database, auth_db.py answers 500.
oauth_db_failed(r) ==
    IF router = "auth"
    THEN Answer(r, [status |-> 200, detail |-> "Google OAuth login successful!",
                    token |-> GoogleToken, user_id |-> 0])
    ELSE Answer(r, Resp(500, "Authentication failed"))

\* create_or_update_oauth_user succeeded for row uid.
oauth_db_saved(r, uid) ==
    Answer(r, AuthResponse(IF router = "auth"
                           THEN "Google OAuth login successful! User saved to database."
                           ELSE "Login successful", uid))

\* create_or_update_oauth_user, line 49: the lookup by Google id.
oauth_user_by_google_id(r) ==
    /\ authReqs[r].pc = "oauth_by_gid"
    /\ LET u == get_user_by_google_id(authReqs[r].gid) IN
       authReqs' = [authReqs EXCEPT ![r].pc = IF u # 0 THEN "oauth_update" ELSE "oauth_by_email",
                                    ![r].uid = u]
    /\ UNCHANGED <<users, oauth_states, router>>

\* lines 51-62: update the user found by Google id (email overwritten).
oauth_user_update(r) ==
    /\ authReqs[r].pc = "oauth_update"
    /\ LET u == authReqs[r].uid
           row == [users[u] EXCEPT !.email = authReqs[r].email, !.is_active = TRUE,
                                   !.provider = "google", !.last_login = authReqs[r].stamp]
       IN  IF UniqueOk(u, row)
           THEN users' = [users EXCEPT ![u] = row] /\ oauth_db_saved(r, u)
           ELSE UNCHANGED users /\ oauth_db_failed(r)
    /\ UNCHANGED <<oauth_states, router>>

\* line 65: the lookup by email.
oauth_user_by_email(r) ==
    /\ authReqs[r].pc = "oauth_by_email"
    /\ LET u == get_user_by_email(authReqs[r].email) IN
       authReqs' = [authReqs EXCEPT ![r].pc = IF u # 0 THEN "oauth_link" ELSE "oauth_insert",
                                    ![r].uid = u]
    /\ UNCHANGED <<users, oauth_states, router>>

\* lines 66-77: link the Google id to the user found by email.
oauth_user_link(r) ==
    /\ authReqs[r].pc = "oauth_link"
    /\ LET u == authReqs[r].uid
           row == [users[u] EXCEPT !.google_id = authReqs[r].gid, !.is_active = TRUE,
                                   !.provider = "google", !.last_login = authReqs[r].stamp]
       IN  IF UniqueOk(u, row)
           THEN users' = [users EXCEPT ![u] = row] /\ oauth_db_saved(r, u)
           ELSE UNCHANGED users /\ oauth_db_failed(r)
    /\ UNCHANGED <<oauth_states, router>>

\* lines 79-93: create the user.
oauth_user_insert(r) ==
    /\ authReqs[r].pc = "oauth_insert"
    /\ LET row == [email |-> authReqs[r].email, hashed_password |-> "None",
                   google_id |-> authReqs[r].gid, is_active |-> TRUE,
                   provider |-> "google", last_login |-> authReqs[r].stamp]
       IN  IF UniqueOk(0, row)
           THEN users' = Append(users, row) /\ oauth_db_saved(r, Len(users) + 1)
           ELSE UNCHANGED users /\ oauth_db_failed(r)
    /\ UNCHANGED <<oauth_states, router>>

OtherThanUsers == <<varsWf, varsOrch, varsOtp, varsBoards, varsApi, varsOtpManager, varsAi>>

UsrRegisterBegin == \E email \in Emails, pw \in Passwords, confirm \in Passwords : register_user_begin(email, pw, confirm) /\ UNCHANGED OtherThanUsers
UsrRegisterCheck == \E r \in ReqIds : register_user_check(r) /\ UNCHANGED OtherThanUsers
UsrRegisterCommit == \E r \in ReqIds : register_user_commit(r) /\ UNCHANGED OtherThanUsers
UsrLoginBegin == \E email \in Emails, pw \in Passwords : login_user_begin(email, pw) /\ UNCHANGED OtherThanUsers
UsrLoginRead == \E r \in ReqIds : authenticate_user_read(r) /\ UNCHANGED OtherThanUsers
UsrLoginCommit == \E r \in ReqIds : authenticate_user_commit(r) /\ UNCHANGED OtherThanUsers
UsrGoogleLogin == google_login /\ UNCHANGED OtherThanUsers
UsrCallbackReject == \E query \in {"ok", "error", "missing"}, state \in 0..NumOAuthStates : google_callback_reject(query, state) /\ UNCHANGED OtherThanUsers
UsrCallbackBegin == \E state \in 0..NumOAuthStates, gid \in GoogleIds, email \in Emails : google_callback_begin(state, gid, email) /\ UNCHANGED OtherThanUsers
UsrCallbackExchange == \E r \in ReqIds, ok \in BOOLEAN : google_callback_exchange(r, ok) /\ UNCHANGED OtherThanUsers
UsrOAuthByGid == \E r \in ReqIds : oauth_user_by_google_id(r) /\ UNCHANGED OtherThanUsers
UsrOAuthUpdate == \E r \in ReqIds : oauth_user_update(r) /\ UNCHANGED OtherThanUsers
UsrOAuthByEmail == \E r \in ReqIds : oauth_user_by_email(r) /\ UNCHANGED OtherThanUsers
UsrOAuthLink == \E r \in ReqIds : oauth_user_link(r) /\ UNCHANGED OtherThanUsers
UsrOAuthInsert == \E r \in ReqIds : oauth_user_insert(r) /\ UNCHANGED OtherThanUsers

\* ---- The login flow with the accounts it tells apart ----
UsrDeactivate == \E user_id \in UserIds : deactivate_user(user_id) /\ UNCHANGED OtherThanUsers

NextLogin ==
    \/ UsrLoginBegin \/ UsrLoginRead \/ UsrLoginCommit
    \/ UsrDeactivate

NextUsers ==
    \/ UsrRegisterBegin \/ UsrRegisterCheck \/ UsrRegisterCommit
    \/ UsrLoginBegin \/ UsrLoginRead \/ UsrLoginCommit
    \/ UsrGoogleLogin \/ UsrCallbackReject \/ UsrCallbackBegin \/ UsrCallbackExchange
    \/ UsrOAuthByGid \/ UsrOAuthUpdate \/ UsrOAuthByEmail \/ UsrOAuthLink \/ UsrOAuthInsert

\* Users tables the requests start from: the empty table, and one with a
\* password user who has linked Google account g1 and a second password user.
UserA == [email |-> "a@x.io", hashed_password |-> hash_password(StrongPw), google_id |-> "g1",
          is_active |-> TRUE, provider |-> "google", last_login |-> 0]
UserB == [email |-> "b@x.io", hashed_password |-> hash_password(StrongPw), google_id |-> "None",
          is_active |-> TRUE, provider |-> "email", last_login |-> 0]

\* The row create_or_update_oauth_user inserts for a first Google sign-in:
\* no password hash.
UserG == [email |-> "b@x.io", hashed_password |-> "None", google_id |-> "g2",
          is_active |-> TRUE, provider |-> "google", last_login |-> 0]

InitialUserTables == {<<>>, <<UserA, UserB>>}

InitUsers ==
    /\ users \in InitialUserTables
    /\ authReqs = <<>>
    /\ oauth_states = [issued |-> 0, live |-> {}]
    /\ router \in {"auth", "auth_db"}

(***************************************************************************)
(* app/utils/security.py: OTPManager; app/api/auth.py: password reset      *)
(***************************************************************************)
\* The codes generate_otp can draw.
OtpCodes == {"111111", "222222"}

\* generate_otp(expiry_minutes = 10), verify_otp(max_attempts = 3).
expiry_minutes == 10
max_attempts == 3

OtpReqIds == DOMAIN otpReqs

OtpResp(status, detail) == [status |-> status, detail |-> detail]

ForgotMessage == "If this email is registered, you will receive an OTP shortly"

\* A request of the password-reset flow. generated: generate_otp was called;
\* verified: what verify_otp returned; uid: the row reset_password works on;
\* passwords_ok: the passwords passed the two validations; otp_valid: what
\* verify_otp returns, or would have returned had the handler come to call it.
NewOtpReq(kind, email, otp, pw, pc, flag, resp) ==
    [kind |-> kind, email |-> email, otp |-> otp, password |-> pw, pc |-> pc,
     generated |-> (kind = "forgot" /\ flag), verified |-> (kind = "reset" /\ flag),
     passwords_ok |-> TRUE, otp_valid |-> (kind = "reset" /\ flag),
     outcome |-> "none", uid |-> 0, resp |-> resp]

\* OTPManager.generate_otp: the entry stored for the email.
generate_otp(email, code) ==
    DictPut(otp_storage, email, [otp |-> code, expires_at |-> now + expiry_minutes, attempts |-> 0])

\* A verify_otp without the attempt limit.
verify_otp_NoAttemptLimit(email, otp) ==
    IF email \notin DOMAIN otp_storage THEN FALSE
    ELSE IF now > otp_storage[email].expires_at THEN FALSE
    ELSE otp_storage[email].otp = otp

\* A verify_otp without the expiry test.
verify_otp_NoExpiry(email, otp) ==
    IF email \notin DOMAIN otp_storage THEN FALSE
    ELSE IF otp_storage[email].attempts >= max_attempts THEN FALSE
    ELSE otp_storage[email].otp = otp

\* OTPManager.verify_otp: the value it returns.
verify_otp(email, otp) ==
    IF email \notin DOMAIN otp_storage THEN FALSE
    ELSE IF now > otp_storage[email].expires_at THEN FALSE
    ELSE IF otp_storage[email].attempts >= max_attempts THEN FALSE
    ELSE otp_storage[email].otp = otp

\* A verify_otp that keeps the entry after a successful verification.
verify_otp_storage_KeepOnSuccess(email, otp) ==
    IF email \notin DOMAIN otp_storage THEN otp_storage
    ELSE IF now > otp_storage[email].expires_at THEN DictDel(otp_storage, email)
    ELSE IF otp_storage[email].attempts >= max_attempts THEN DictDel(otp_storage, email)
    ELSE [otp_storage EXCEPT ![email].attempts = @ + 1]

\* OTPManager.verify_otp: _otp_storage after the call.
verify_otp_storage(email, otp) ==
    IF email \notin DOMAIN otp_storage THEN otp_storage
    ELSE IF now > otp_storage[email].expires_at THEN DictDel(otp_storage, email)
    ELSE IF otp_storage[email].attempts >= max_attempts THEN DictDel(otp_storage, email)
    ELSE IF otp_storage[email].otp = otp THEN DictDel(otp_storage, email)
    ELSE [otp_storage EXCEPT ![email].attempts = @ + 1]

\* ---- POST /forgot-password (auth.py 311-338) ----
\* The user lookup and, for a registered email, generate_otp. raised: the
\* lookup or generate_otp raises before an OTP is stored; the except clause
\* answers with the same message.
forgot_password(email, raised) ==
    /\ Len(otpReqs) < NumOtpReqs
    /\ IF raised
       THEN /\ otpReqs' = Append(otpReqs,
                  [NewOtpReq("forgot", email, "None", WeakPw, "done", FALSE, OtpResp(200, ForgotMessage))
                      EXCEPT !.outcome = "raised"])
            /\ UNCHANGED otp_storage
       ELSE IF get_user_by_email(email) = 0
       THEN /\ otpReqs' = Append(otpReqs,
                  NewOtpReq("forgot", email, "None", WeakPw, "done", FALSE, OtpResp(200, ForgotMessage)))
            /\ UNCHANGED otp_storage
       ELSE \E code \in OtpCodes :
            /\ otp_storage' = generate_otp(email, code)
            /\ otpReqs' = Append(otpReqs,
                  NewOtpReq("forgot", email, code, WeakPw, "send_otp_email", TRUE, OtpResp(0, "")))
    /\ UNCHANGED <<users, now>>

\* A forgot_password that tells the caller when the email could not be sent.
forgot_password_return_RevealFailure(r, outcome) ==
    /\ otpReqs[r].pc = "send_otp_email"
    /\ outcome \in {"sent", "not_sent", "raised"}
    /\ otpReqs' = [otpReqs EXCEPT ![r].pc = "done", ![r].outcome = outcome,
                                  ![r].resp = IF outcome = "sent"
                                              THEN OtpResp(200, ForgotMessage)
                                              ELSE OtpResp(500, "Failed to send OTP")]
    /\ UNCHANGED <<users, otp_storage, now>>

\* send_otp_email returned (sent or not) or raised: the answer is the same.
forgot_password_return(r, outcome) ==
    /\ otpReqs[r].pc = "send_otp_email"
    /\ outcome \in {"sent", "not_sent", "raised"}
    /\ otpReqs' = [otpReqs EXCEPT ![r].pc = "done", ![r].outcome = outcome,
                                  ![r].resp = OtpResp(200, ForgotMessage)]
    /\ UNCHANGED <<users, otp_storage, now>>

\* ---- POST /reset-password (auth.py 341-374) ----
\* Turned down by the two password validations, before verify_otp.
reset_password_invalid(pw, confirm, email, otp) ==
    /\ Len(otpReqs) < NumOtpReqs
    /\ pw # confirm \/ ~validate_password_strength(pw)
    /\ otpReqs' = Append(otpReqs,
          [NewOtpReq("reset", "None", "None", WeakPw, "done", FALSE,
                     OtpResp(400, IF pw # confirm THEN "Passwords do not match"
                                                  ELSE "Password requirements not met"))
              EXCEPT !.passwords_ok = FALSE, !.otp_valid = verify_otp(email, otp)])
    /\ UNCHANGED <<users, otp_storage, now>>

\* A reset_password that goes on to UserService.reset_password whatever
\* verify_otp returned.
reset_password_SkipVerify(email, otp, pw) ==
    /\ Len(otpReqs) < NumOtpReqs
    /\ validate_password_strength(pw)
    /\ otp_storage' = verify_otp_storage(email, otp)
    /\ otpReqs' = Append(otpReqs,
          NewOtpReq("reset", email, otp, pw, "reset_password", verify_otp(email, otp), OtpResp(0, "")))
    /\ UNCHANGED <<users, now>>

\* A request with valid passwords: verify_otp.
reset_password(email, otp, pw) ==
    /\ Len(otpReqs) < NumOtpReqs
    /\ validate_password_strength(pw)
    /\ otp_storage' = verify_otp_storage(email, otp)
    /\ otpReqs' = Append(otpReqs,
          IF verify_otp(email, otp)
          THEN NewOtpReq("reset", email, otp, pw, "reset_password", TRUE, OtpResp(0, ""))
          ELSE NewOtpReq("reset", email, otp, pw, "done", FALSE, OtpResp(400, "Invalid or expired OTP")))
    /\ UNCHANGED <<users, now>>

\* UserService.reset_password (user_service.py 138-147): the user lookup.
UserService_reset_password_read(r) ==
    /\ otpReqs[r].pc = "reset_password"
    /\ LET u == get_user_by_email(otpReqs[r].email) IN
       otpReqs' = IF u = 0
                  THEN [otpReqs EXCEPT ![r].pc = "done", ![r].resp = OtpResp(404, "User not found")]
                  ELSE [otpReqs EXCEPT ![r].pc = "commit", ![r].uid = u]
    /\ UNCHANGED <<users, otp_storage, now>>

\* UserService.reset_password: the commit of the new hash, or its failure.
UserService_reset_password_commit(r, ok) ==
    /\ otpReqs[r].pc = "commit"
    /\ IF ok
       THEN /\ users' = [users EXCEPT ![otpReqs[r].uid].hashed_password = hash_password(otpReqs[r].password)]
            /\ otpReqs' = [otpReqs EXCEPT ![r].pc = "done",
                                          ![r].resp = OtpResp(200, "Password reset successfully")]
       ELSE /\ otpReqs' = [otpReqs EXCEPT ![r].pc = "done",
                                          ![r].resp = OtpResp(500, "Password reset failed")]
            /\ UNCHANGED users
    /\ UNCHANGED <<otp_storage, now>>

\* datetime.utcnow() moves on.
utcnow_advance ==
    /\ now + ClockStep <= MaxTime
    /\ now' = now + ClockStep
    /\ UNCHANGED <<users, otp_storage, otpReqs>>

OtherThanOtp == <<varsWf, varsOrch, varsBoards, varsApi, varsOtpManager, varsAi, authReqs, oauth_states, router>>

OtpForgot == \E email \in Emails, raised \in BOOLEAN : forgot_password(email, raised) /\ UNCHANGED OtherThanOtp
OtpForgotReturn == \E r \in OtpReqIds, outcome \in {"sent", "not_sent", "raised"} : forgot_password_return(r, outcome) /\ UNCHANGED OtherThanOtp
OtpResetInvalid == \E pw \in ResetPasswords, confirm \in ResetPasswords, email \in Emails, otp \in OtpCodes : reset_password_invalid(pw, confirm, email, otp) /\ UNCHANGED OtherThanOtp
OtpReset == \E email \in Emails, otp \in OtpCodes, pw \in ResetPasswords : reset_password(email, otp, pw) /\ UNCHANGED OtherThanOtp
OtpResetRead == \E r \in OtpReqIds : UserService_reset_password_read(r) /\ UNCHANGED OtherThanOtp
OtpResetCommit == \E r \in OtpReqIds, ok \in BOOLEAN : UserService_reset_password_commit(r, ok) /\ UNCHANGED OtherThanOtp
OtpTick == utcnow_advance /\ UNCHANGED OtherThanOtp

NextOtp ==
    \/ OtpForgot \/ OtpForgotReturn \/ OtpResetInvalid \/ OtpReset
    \/ OtpResetRead \/ OtpResetCommit \/ OtpTick

\* ---- OTPManager called directly: generate_otp and verify_otp ----
\* What is kept per email about the calls since its last generate_otp: the
\* code and time of that call, the number of verify_otp calls, how many of
\* them returned False, how many reached the comparison with the stored code,
\* and the result and argument of the last one.
NoCalls ==
    [generated |-> 0, code |-> "None", generated_at |-> 0, verifies |-> 0, failed |-> 0,
     compared |-> 0, last_result |-> "none", last_correct |-> FALSE]

\* verify_otp reaches `otp_data['otp'] == otp`: there is an entry, it has not
\* expired and its attempts are below max_attempts.
verify_otp_compares(email) ==
    /\ email \in DOMAIN otp_storage
    /\ ~(now > otp_storage[email].expires_at)
    /\ ~(otp_storage[email].attempts >= max_attempts)

OTPManager_generate_otp(email, code) ==
    /\ otp_calls[email].generated < MaxGenerates
    /\ otp_storage' = generate_otp(email, code)
    /\ otp_calls' = [otp_calls EXCEPT ![email] =
                        [NoCalls EXCEPT !.generated = otp_calls[email].generated + 1,
                                        !.code = code, !.generated_at = now]]
    /\ UNCHANGED <<users, otpReqs, now>>

OTPManager_verify_otp(email, otp) ==
    /\ otp_calls[email].verifies < MaxVerifies
    /\ otp_storage' = verify_otp_storage(email, otp)
    /\ otp_calls' = [otp_calls EXCEPT ![email] =
                        [@ EXCEPT !.verifies = @ + 1,
                                  !.failed = IF verify_otp(email, otp) THEN @ ELSE @ + 1,
                                  !.compared = IF verify_otp_compares(email) THEN @ + 1 ELSE @,
                                  !.last_result = IF verify_otp(email, otp) THEN "True" ELSE "False",
                                  !.last_correct = (otp = otp_calls[email].code)]]
    /\ UNCHANGED <<users, otpReqs, now>>

OtherThanOtpManager == <<varsWf, varsOrch, varsBoards, varsApi, authReqs, oauth_states, router, varsAi>>

OtpmGenerate == \E email \in Emails, code \in OtpCodes : OTPManager_generate_otp(email, code) /\ UNCHANGED OtherThanOtpManager
OtpmVerify == \E email \in Emails, otp \in OtpCodes : OTPManager_verify_otp(email, otp) /\ UNCHANGED OtherThanOtpManager
OtpmTick == utcnow_advance /\ UNCHANGED <<OtherThanOtpManager, otp_calls>>

NextOtpManager == OtpmGenerate \/ OtpmVerify \/ OtpmTick

InitOtp ==
    /\ otp_storage = <<>> /\ otpReqs = <<>> /\ now = 0
    /\ otp_calls = [e \in Emails |-> NoCalls]

(***************************************************************************)
(* app/api/boards.py, app/services/board_service.py                        *)
(***************************************************************************)
\* The user ids that the callers' JWTs carry (get_current_user_id).
Callers == {1, 2}

\* Titles and search terms, as sequences of characters.
Titles == {<<"A", "b">>, <<" ", "c">>}
Descriptions == {"None", "d"}
SearchTerms == {<<>>, <<"a">>}

\* The board ids requests ask for.
AskedBoardIds == 1..MaxBoardId

\* BoardUpdate bodies, by the fields they set (dict(exclude_unset=True)).
BoardUpdates == {[title |-> <<"c">>], [is_private |-> FALSE]}

\* page and per_page of the list requests.
Pagings == {<<1, 100>>, <<1, 1>>, <<2, 1>>, <<0, 1>>, <<1, 0>>, <<1, 101>>}

NoBoard == [id |-> 0, user_id |-> 0, title |-> <<>>, description |-> "None",
            is_private |-> TRUE, created_at |-> 0, updated_at |-> 0]

NoBody == [f \in {} |-> 0]

BoardReqIds == DOMAIN boardReqs

\* str.strip() of the title validator: leading and trailing blanks removed.
RECURSIVE strip(_)
strip(title) ==
    IF title = <<>> THEN title
    ELSE IF Head(title) = " " THEN strip(Tail(title))
    ELSE IF title[Len(title)] = " " THEN strip(SubSeq(title, 1, Len(title) - 1))
    ELSE title

Lower(c) ==
    CASE c = "A" -> "a"
      [] c = "B" -> "b"
      [] c = "C" -> "c"
      [] OTHER -> c

\* Board.title.ilike('%term%').
ilike(title, term) ==
    \E k \in 0..(Len(title) - Len(term)) :
        \A i \in 1..Len(term) : Lower(title[k + i]) = Lower(term[i])

\* A get_board_by_id that does not filter on the owner.
get_board_by_id_AnyOwner(board_id, user_id) ==
    IF board_id \in DOMAIN boards THEN boards[board_id] ELSE NoBoard

\* BoardService.get_board_by_id: the row with this id and this owner.
get_board_by_id(board_id, user_id) ==
    IF board_id \in DOMAIN boards /\ boards[board_id].user_id = user_id
    THEN boards[board_id]
    ELSE NoBoard

\* The WHERE clause of get_user_boards / search_user_boards.
MatchingBoards(user_id, search) ==
    {i \in DOMAIN boards :
        /\ boards[i].user_id = user_id
        /\ search # <<>> => ilike(boards[i].title, search)}

\* ORDER BY updated_at DESC, created_at DESC: row i sorts before row j.
SortsBefore(i, j) ==
    \/ boards[i].updated_at > boards[j].updated_at
    \/ /\ boards[i].updated_at = boards[j].updated_at
       /\ boards[i].created_at > boards[j].created_at

\* The orders in which the database may return the rows of S.
Orderings(S) ==
    {sq \in [1..Cardinality(S) -> S] :
        \A i, j \in 1..Cardinality(S) :
            i < j => (sq[i] # sq[j] /\ ~SortsBefore(sq[j], sq[i]))}

\* A pagination that ignores the page number and always starts at the first row.
PageOf_NoOffset(sq, page, per_page) ==
    LET n == IF Len(sq) < per_page THEN Len(sq) ELSE per_page
    IN [k \in 1..n |-> boards[sq[k]]]

\* OFFSET (page - 1) * per_page LIMIT per_page.
PageOf(sq, page, per_page) ==
    LET offset == (page - 1) * per_page
        n == IF Len(sq) - offset < per_page THEN Len(sq) - offset ELSE per_page
    IN [k \in 1..(IF n < 0 THEN 0 ELSE n) |-> boards[sq[offset + k]]]

NewBoardReq(op, caller, board_id, pc, status, detail) ==
    [op |-> op, caller |-> caller, board_id |-> board_id, body |-> NoBody,
     page |-> 0, per_page |-> 0, search |-> <<>>, pc |-> pc, loaded |-> NoBoard,
     status |-> status, detail |-> detail, board |-> NoBoard, boards |-> <<>>, total |-> 0]

\* ---- POST /boards ----
\* board_data is the validated BoardCreate: its title is the stripped one.
create_board(caller, title, description, is_private) ==
    /\ Len(boardReqs) < NumBoardReqs
    /\ LET id == board_seq + 1
           board_data == [title |-> strip(title), description |-> description,
                          is_private |-> is_private]
           row == [id |-> id, user_id |-> caller, title |-> board_data.title,
                   description |-> board_data.description,
                   is_private |-> board_data.is_private,
                   created_at |-> now, updated_at |-> now]
       IN /\ boards' = DictPut(boards, id, row)
          /\ board_seq' = id
          /\ boardReqs' = Append(boardReqs,
                [NewBoardReq("create", caller, id, "done", 201, "Board created successfully")
                    EXCEPT !.body = [title |-> title, description |-> description,
                                     is_private |-> is_private],
                           !.board = row])

\* ---- GET /boards/{board_id} ----
get_board(caller, board_id) ==
    /\ Len(boardReqs) < NumBoardReqs
    /\ LET board == get_board_by_id(board_id, caller) IN
       boardReqs' = Append(boardReqs,
            IF board = NoBoard
            THEN NewBoardReq("get", caller, board_id, "done", 404, "Board not found")
            ELSE [NewBoardReq("get", caller, board_id, "done", 200, "") EXCEPT !.board = board])
    /\ UNCHANGED <<boards, board_seq>>

\* ---- PUT /boards/{board_id} ----
\* BoardService.update_board up to its commit: the board is loaded.
update_board(caller, board_id, body) ==
    /\ Len(boardReqs) < NumBoardReqs
    /\ LET board == get_board_by_id(board_id, caller) IN
       boardReqs' = Append(boardReqs,
            IF board = NoBoard
            THEN [NewBoardReq("update", caller, board_id, "done", 404, "Board not found")
                    EXCEPT !.body = body]
            ELSE [NewBoardReq("update", caller, board_id, "commit", 0, "")
                    EXCEPT !.body = body, !.loaded = board])
    /\ UNCHANGED <<boards, board_seq>>

\* The fields setattr changed on the loaded board: the UPDATE writes these.
ChangedFields(loaded, body) == {f \in DOMAIN body : body[f] # loaded[f]}

\* The commit and refresh of update_board. A row deleted in the meantime makes
\* them raise; update_board then returns None.
update_board_commit(r) ==
    /\ boardReqs[r].op = "update" /\ boardReqs[r].pc = "commit"
    /\ LET q == boardReqs[r]
           changed == ChangedFields(q.loaded, q.body)
       IN IF q.board_id \notin DOMAIN boards
          THEN /\ boardReqs' = [boardReqs EXCEPT ![r].pc = "done", ![r].status = 404,
                                                 ![r].detail = "Board not found"]
               /\ UNCHANGED boards
          ELSE LET row == [f \in DOMAIN boards[q.board_id] |->
                              IF f \in changed THEN q.body[f]
                              ELSE IF f = "updated_at" /\ changed # {} THEN now
                              ELSE boards[q.board_id][f]]
               IN /\ boards' = [boards EXCEPT ![q.board_id] = row]
                  /\ boardReqs' = [boardReqs EXCEPT ![r].pc = "done", ![r].status = 200,
                                                    ![r].detail = "Board updated successfully",
                                                    ![r].board = row]
    /\ UNCHANGED board_seq

\* ---- DELETE /boards/{board_id} ----
delete_board(caller, board_id) ==
    /\ Len(boardReqs) < NumBoardReqs
    /\ LET board == get_board_by_id(board_id, caller) IN
       boardReqs' = Append(boardReqs,
            IF board = NoBoard
            THEN NewBoardReq("delete", caller, board_id, "done", 404, "Board not found")
            ELSE [NewBoardReq("delete", caller, board_id, "commit", 0, "") EXCEPT !.loaded = board])
    /\ UNCHANGED <<boards, board_seq>>

\* A delete_board that reports success and leaves the row in the table.
delete_board_commit_KeepRow(r) ==
    /\ boardReqs[r].op = "delete" /\ boardReqs[r].pc = "commit"
    /\ boardReqs' = [boardReqs EXCEPT ![r].pc = "done", ![r].status = 200,
                                      ![r].detail = "Board deleted successfully"]
    /\ UNCHANGED <<boards, board_seq>>

\* db.delete and commit; a DELETE that matches no row any more is not an error.
delete_board_commit(r) ==
    /\ boardReqs[r].op = "delete" /\ boardReqs[r].pc = "commit"
    /\ boards' = DictDel(boards, boardReqs[r].board_id)
    /\ boardReqs' = [boardReqs EXCEPT ![r].pc = "done", ![r].status = 200,
                                      ![r].detail = "Board deleted successfully"]
    /\ UNCHANGED board_seq

\* ---- GET /boards ----
\* Query(1, ge=1) and Query(20, ge=1, le=100): anything else is answered 422
\* before the handler runs.
QueryAccepted(page, per_page) == page >= 1 /\ per_page >= 1 /\ per_page <= 100

\* The count query of get_user_boards / search_user_boards.
get_user_boards(caller, page, per_page, search) ==
    /\ Len(boardReqs) < NumBoardReqs
    /\ boardReqs' = Append(boardReqs,
          IF QueryAccepted(page, per_page)
          THEN [NewBoardReq("list", caller, 0, "select", 0, "")
                  EXCEPT !.page = page, !.per_page = per_page, !.search = search,
                         !.total = Cardinality(MatchingBoards(caller, search))]
          ELSE [NewBoardReq("list", caller, 0, "done", 422, "validation error")
                  EXCEPT !.page = page, !.per_page = per_page])
    /\ UNCHANGED <<boards, board_seq>>

\* The select query, and the response.
get_user_boards_select(r) ==
    /\ boardReqs[r].op = "list" /\ boardReqs[r].pc = "select"
    /\ \E sq \in Orderings(MatchingBoards(boardReqs[r].caller, boardReqs[r].search)) :
          boardReqs' = [boardReqs EXCEPT
                          ![r].pc = "done", ![r].status = 200,
                          ![r].boards = PageOf(sq, boardReqs[r].page, boardReqs[r].per_page)]
    /\ UNCHANGED <<boards, board_seq>>

OtherThanBoards == <<varsWf, varsOrch, varsUsers, varsOtp, varsApi, varsOtpManager, varsAi>>

BrdCreate == \E caller \in Callers, title \in Titles, description \in Descriptions, is_private \in BOOLEAN : create_board(caller, title, description, is_private) /\ UNCHANGED OtherThanBoards
BrdGet == \E caller \in Callers, id \in AskedBoardIds : get_board(caller, id) /\ UNCHANGED OtherThanBoards
BrdUpdate == \E caller \in Callers, id \in AskedBoardIds, body \in BoardUpdates : update_board(caller, id, body) /\ UNCHANGED OtherThanBoards
BrdUpdateCommit == \E r \in BoardReqIds : update_board_commit(r) /\ UNCHANGED OtherThanBoards
BrdDelete == \E caller \in Callers, id \in AskedBoardIds : delete_board(caller, id) /\ UNCHANGED OtherThanBoards
BrdDeleteCommit == \E r \in BoardReqIds : delete_board_commit(r) /\ UNCHANGED OtherThanBoards
BrdList == \E caller \in Callers, pg \in Pagings, search \in SearchTerms : get_user_boards(caller, pg[1], pg[2], search) /\ UNCHANGED OtherThanBoards
BrdListSelect == \E r \in BoardReqIds : get_user_boards_select(r) /\ UNCHANGED OtherThanBoards
BrdTick == utcnow_advance /\ UNCHANGED <<varsWf, varsOrch, varsBoards, varsApi, varsOtpManager, varsAi, authReqs, oauth_states, router>>

NextBoards ==
    \/ BrdCreate \/ BrdGet \/ BrdUpdate \/ BrdUpdateCommit \/ BrdDelete \/ BrdDeleteCommit
    \/ BrdList \/ BrdListSelect \/ BrdTick

\* The boards table as a run starts: user 1 owns board 1, user 2 owns board 2.
InitialBoards ==
    <<[id |-> 1, user_id |-> 1, title |-> <<"A", "b">>, description |-> "None",
       is_private |-> TRUE, created_at |-> 0, updated_at |-> 0],
      [id |-> 2, user_id |-> 2, title |-> <<"c">>, description |-> "None",
       is_private |-> TRUE, created_at |-> 0, updated_at |-> 0]>>

InitBoards == boards = InitialBoards /\ board_seq = Len(InitialBoards) /\ boardReqs = <<>>

(***************************************************************************)
(* app/utils/auth.py: the guards; app/api/chatmessages.py, assets.py,       *)
(* nodes.py, workspaces.py with their services                             *)
(***************************************************************************)
\* Authorization headers, by what HTTPBearer and jwt.decode look at.
NoCredentials == [scheme |-> "none", signer |-> "none", expired |-> FALSE, sub |-> 0]
GarbageBearer == [scheme |-> "bearer", signer |-> "none", expired |-> FALSE, sub |-> 0]
ExpiredToken == [scheme |-> "bearer", signer |-> "app", expired |-> TRUE, sub |-> 1]
ValidToken(u) == [scheme |-> "bearer", signer |-> "app", expired |-> FALSE, sub |-> u]

Credentials == {NoCredentials, GarbageBearer, ExpiredToken} \cup {ValidToken(u) : u \in Callers}

\* security = HTTPBearer(auto_error=True): lets a Bearer header pass.
HTTPBearer(cred) == cred.scheme = "bearer"

\* The status HTTPBearer turns a request down with: 403, or 401 with the
\* later FastAPI releases.
HTTPBearerDenials == {401, 403}

\* get_current_user_id: int(sub) of a token that jwt.decode accepts, 0 when it
\* raises 401.
get_current_user_id(cred) ==
    IF cred.signer = "app" /\ ~cred.expired THEN cred.sub ELSE 0

get_current_user_id_detail(cred) ==
    IF cred.signer = "app" /\ cred.expired THEN "Token expired" ELSE "Invalid token"

\* The workspaces and the rows that requests address.
AskedWorkspaceIds == {1, 2}
AskedItemIds == {1, 2}
AssetTypes == {"social", "weblink"}

\* A logged request. db_read, db_write: the handler ran a query / issued a
\* write for it.
ApiReq(endpoint, cred, workspace_id, item_id, status, detail, db_read, db_write) ==
    [endpoint |-> endpoint, cred |-> cred, workspace_id |-> workspace_id, item_id |-> item_id,
     status |-> status, detail |-> detail, db_read |-> db_read, db_write |-> db_write]

Respond(rec) == apiReqs' = Append(apiReqs, rec)

ApiTables == <<id_seq, workspaces, assets, nodes, chat_messages>>

\* Depends(security) turns the request down: the handler does not run.
BearerDenied(endpoint, cred) ==
    /\ \E st \in HTTPBearerDenials :
          Respond(ApiReq(endpoint, cred, 0, 0, st, "Not authenticated", FALSE, FALSE))
    /\ UNCHANGED ApiTables

\* get_current_user_id raises 401, as a dependency or as the first statement.
JwtDenied(endpoint, cred) ==
    /\ Respond(ApiReq(endpoint, cred, 0, 0, 401, get_current_user_id_detail(cred), FALSE, FALSE))
    /\ UNCHANGED ApiTables

\* ---- app/api/chatmessages.py: no endpoint takes credentials ----
ChatRow(workspace_id, message_id) ==
    /\ message_id \in DOMAIN chat_messages
    /\ chat_messages[message_id].workspace_id = workspace_id

send_message(cred, workspace_id, content) ==
    /\ Len(apiReqs) < NumApiReqs
    /\ id_seq' = [id_seq EXCEPT !.chat_messages = @ + 1]
    /\ IF workspace_id \in DOMAIN workspaces
       THEN /\ chat_messages' = DictPut(chat_messages, id_seq'.chat_messages,
                   [id |-> id_seq'.chat_messages, workspace_id |-> workspace_id,
                    role |-> "user", content |-> content])
            /\ Respond(ApiReq("send_message", cred, workspace_id, id_seq'.chat_messages,
                              200, "", TRUE, TRUE))
       ELSE \* the foreign key on workspace_id fails the INSERT
            /\ Respond(ApiReq("send_message", cred, workspace_id, 0,
                              500, "Internal Server Error", FALSE, TRUE))
            /\ UNCHANGED chat_messages
    /\ UNCHANGED <<workspaces, assets, nodes>>

get_chat_history(cred, workspace_id) ==
    /\ Len(apiReqs) < NumApiReqs
    /\ Respond(ApiReq("get_chat_history", cred, workspace_id, 0, 200, "", TRUE, FALSE))
    /\ UNCHANGED ApiTables

get_message(cred, workspace_id, message_id) ==
    /\ Len(apiReqs) < NumApiReqs
    /\ Respond(IF ChatRow(workspace_id, message_id)
               THEN ApiReq("get_message", cred, workspace_id, message_id, 200, "", TRUE, FALSE)
               ELSE ApiReq("get_message", cred, workspace_id, message_id,
                           404, "Message not found", TRUE, FALSE))
    /\ UNCHANGED ApiTables

update_message(cred, workspace_id, message_id, content) ==
    /\ Len(apiReqs) < NumApiReqs
    /\ IF ChatRow(workspace_id, message_id)
       THEN /\ chat_messages' = [chat_messages EXCEPT ![message_id].content = content]
            /\ Respond(ApiReq("update_message", cred, workspace_id, message_id, 200, "", TRUE, TRUE))
       ELSE /\ Respond(ApiReq("update_message", cred, workspace_id, message_id,
                              404, "Message not found", TRUE, FALSE))
            /\ UNCHANGED chat_messages
    /\ UNCHANGED <<id_seq, workspaces, assets, nodes>>

delete_message(cred, workspace_id, message_id) ==
    /\ Len(apiReqs) < NumApiReqs
    /\ IF ChatRow(workspace_id, message_id)
       THEN /\ chat_messages' = DictDel(chat_messages, message_id)
            /\ Respond(ApiReq("delete_message", cred, workspace_id, message_id,
                              200, "Deleted successfully", TRUE, TRUE))
       ELSE /\ Respond(ApiReq("delete_message", cred, workspace_id, message_id,
                              404, "Message not found", TRUE, FALSE))
            /\ UNCHANGED chat_messages
    /\ UNCHANGED <<id_seq, workspaces, assets, nodes>>

clear_history(cred, workspace_id) ==
    /\ Len(apiReqs) < NumApiReqs
    /\ chat_messages' = [m \in {k \in DOMAIN chat_messages :
                                  chat_messages[k].workspace_id # workspace_id} |-> chat_messages[m]]
    /\ Respond(ApiReq("clear_history", cred, workspace_id, 0, 200, "Chat history cleared", FALSE, TRUE))
    /\ UNCHANGED <<id_seq, workspaces, assets, nodes>>

\* ---- app/api/assets.py with AssetService ----
\* AssetService.get_asset finds the row.
AssetRow(workspace_id, asset_id, asset_type) ==
    /\ asset_id \in DOMAIN assets
    /\ assets[asset_id].workspace_id = workspace_id
    /\ assets[asset_id].type = asset_type

\* POST: Depends(security), get_current_user_id, AssetService.create_asset.
create_asset(cred, workspace_id, asset_type, url) ==
    /\ Len(apiReqs) < NumApiReqs
    /\ IF ~HTTPBearer(cred) THEN BearerDenied("create_asset", cred)
       ELSE IF get_current_user_id(cred) = 0 THEN JwtDenied("create_asset", cred)
       ELSE IF workspace_id \notin DOMAIN workspaces
       THEN /\ Respond(ApiReq("create_asset", cred, workspace_id, 0,
                              404, "Workspace not found", TRUE, FALSE))
            /\ UNCHANGED ApiTables
       ELSE IF url = "None"
       THEN /\ Respond(ApiReq("create_asset", cred, workspace_id, 0,
                              404, "Either file, url, or content must be provided", TRUE, FALSE))
            /\ UNCHANGED ApiTables
       ELSE /\ id_seq' = [id_seq EXCEPT !.assets = @ + 1]
            /\ assets' = DictPut(assets, id_seq'.assets,
                   [id |-> id_seq'.assets, type |-> asset_type, url |-> url, content |-> "None",
                    asset_metadata |-> "empty", workspace_id |-> workspace_id,
                    user_id |-> get_current_user_id(cred)])
            /\ Respond(ApiReq("create_asset", cred, workspace_id, id_seq'.assets, 201, "", TRUE, TRUE))
            /\ UNCHANGED <<workspaces, nodes, chat_messages>>

\* GET list, GET one, PUT, DELETE: Depends(security) only; the token is not
\* decoded.
list_assets(cred, workspace_id, asset_type) ==
    /\ Len(apiReqs) < NumApiReqs
    /\ IF ~HTTPBearer(cred) THEN BearerDenied("list_assets", cred)
       ELSE /\ Respond(IF workspace_id \in DOMAIN workspaces
                       THEN ApiReq("list_assets", cred, workspace_id, 0, 200, "", TRUE, FALSE)
                       ELSE ApiReq("list_assets", cred, workspace_id, 0,
                                   404, "Workspace not found", TRUE, FALSE))
            /\ UNCHANGED ApiTables

get_asset(cred, workspace_id, asset_id, asset_type) ==
    /\ Len(apiReqs) < NumApiReqs
    /\ IF ~HTTPBearer(cred) THEN BearerDenied("get_asset", cred)
       ELSE /\ Respond(IF AssetRow(workspace_id, asset_id, asset_type)
                       THEN ApiReq("get_asset", cred, workspace_id, asset_id, 200, "", TRUE, FALSE)
                       ELSE ApiReq("get_asset", cred, workspace_id, asset_id,
                                   404, "asset not found", TRUE, FALSE))
            /\ UNCHANGED ApiTables

\* The url and asset_metadata of an AssetUpdate body: absent, or a new value.
UpdateUrls == {"None", "u1"}
UpdateMetadata == {"None", "m1"}

\* PUT: AssetService.update_asset assigns url and asset_metadata to the loaded
\* row and then reads request.content, which AssetUpdate does not have: the
\* AttributeError ends the request before the commit, and the session is
\* closed without one.
update_asset(cred, workspace_id, asset_id, asset_type, url, asset_metadata) ==
    /\ Len(apiReqs) < NumApiReqs
    /\ IF ~HTTPBearer(cred) THEN BearerDenied("update_asset", cred)
       ELSE /\ Respond(IF AssetRow(workspace_id, asset_id, asset_type)
                       THEN ApiReq("update_asset", cred, workspace_id, asset_id,
                                   500, "Internal Server Error", TRUE, FALSE)
                            @@ [asset_type |-> asset_type, url |-> url,
                                asset_metadata |-> asset_metadata]
                       ELSE ApiReq("update_asset", cred, workspace_id, asset_id,
                                   404, "asset not found", TRUE, FALSE))
            /\ UNCHANGED ApiTables

\* The nodes that are not deleted along with an asset (ondelete CASCADE).
NodesWithoutAsset(asset_id) ==
    [n \in {k \in DOMAIN nodes : /\ nodes[k].source_asset_id # asset_id
                                 /\ nodes[k].target_asset_id # asset_id} |-> nodes[n]]

delete_asset(cred, workspace_id, asset_id, asset_type) ==
    /\ Len(apiReqs) < NumApiReqs
    /\ IF ~HTTPBearer(cred) THEN BearerDenied("delete_asset", cred)
       ELSE IF AssetRow(workspace_id, asset_id, asset_type)
       THEN /\ assets' = DictDel(assets, asset_id)
            /\ nodes' = NodesWithoutAsset(asset_id)
            /\ Respond(ApiReq("delete_asset", cred, workspace_id, asset_id, 204, "", TRUE, TRUE))
            /\ UNCHANGED <<id_seq, workspaces, chat_messages>>
       ELSE /\ Respond(ApiReq("delete_asset", cred, workspace_id, asset_id,
                              404, "asset not found", TRUE, FALSE))
            /\ UNCHANGED ApiTables

\* ---- app/api/nodes.py with NodeService ----
\* Every node endpoint: Depends(security), then get_current_user_id.
create_node(cred, workspace_id, source_asset_id, target_asset_id) ==
    /\ Len(apiReqs) < NumApiReqs
    /\ IF ~HTTPBearer(cred) THEN BearerDenied("create_node", cred)
       ELSE IF get_current_user_id(cred) = 0 THEN JwtDenied("create_node", cred)
       ELSE /\ id_seq' = [id_seq EXCEPT !.nodes = @ + 1]
            /\ IF /\ workspace_id \in DOMAIN workspaces
                  /\ source_asset_id \in DOMAIN assets
                  /\ target_asset_id \in DOMAIN assets
               THEN /\ nodes' = DictPut(nodes, id_seq'.nodes,
                          [id |-> id_seq'.nodes, workspace_id |-> workspace_id,
                           source_asset_id |-> source_asset_id,
                           target_asset_id |-> target_asset_id, node_metadata |-> "empty"])
                    /\ Respond(ApiReq("create_node", cred, workspace_id, id_seq'.nodes,
                                      201, "", TRUE, TRUE))
               ELSE \* a foreign key fails the INSERT
                    /\ Respond(ApiReq("create_node", cred, workspace_id, 0,
                                      500, "Internal Server Error", FALSE, TRUE))
                    /\ UNCHANGED nodes
            /\ UNCHANGED <<workspaces, assets, chat_messages>>

list_nodes(cred, workspace_id) ==
    /\ Len(apiReqs) < NumApiReqs
    /\ IF ~HTTPBearer(cred) THEN BearerDenied("list_nodes", cred)
       ELSE IF get_current_user_id(cred) = 0 THEN JwtDenied("list_nodes", cred)
       ELSE /\ Respond(ApiReq("list_nodes", cred, workspace_id, 0, 200, "", TRUE, FALSE))
            /\ UNCHANGED ApiTables

\* NodeService.get_node looks the node up by its id alone.
get_node(cred, workspace_id, node_id) ==
    /\ Len(apiReqs) < NumApiReqs
    /\ IF ~HTTPBearer(cred) THEN BearerDenied("get_node", cred)
       ELSE IF get_current_user_id(cred) = 0 THEN JwtDenied("get_node", cred)
       ELSE /\ Respond(IF node_id \in DOMAIN nodes
                       THEN ApiReq("get_node", cred, workspace_id, node_id, 200, "", TRUE, FALSE)
                       ELSE ApiReq("get_node", cred, workspace_id, node_id,
                                   404, "Node not found", TRUE, FALSE))
            /\ UNCHANGED ApiTables

NodeRow(workspace_id, node_id) ==
    /\ node_id \in DOMAIN nodes
    /\ nodes[node_id].workspace_id = workspace_id

update_node(cred, workspace_id, node_id, node_metadata) ==
    /\ Len(apiReqs) < NumApiReqs
    /\ IF ~HTTPBearer(cred) THEN BearerDenied("update_node", cred)
       ELSE IF get_current_user_id(cred) = 0 THEN JwtDenied("update_node", cred)
       ELSE IF NodeRow(workspace_id, node_id)
       THEN /\ nodes' = [nodes EXCEPT ![node_id].node_metadata = node_metadata]
            /\ Respond(ApiReq("update_node", cred, workspace_id, node_id, 200, "", TRUE, TRUE))
            /\ UNCHANGED <<id_seq, workspaces, assets, chat_messages>>
       ELSE /\ Respond(ApiReq("update_node", cred, workspace_id, node_id,
                              404, "Node not found", TRUE, FALSE))
            /\ UNCHANGED ApiTables

delete_node(cred, workspace_id, node_id) ==
    /\ Len(apiReqs) < NumApiReqs
    /\ IF ~HTTPBearer(cred) THEN BearerDenied("delete_node", cred)
       ELSE IF get_current_user_id(cred) = 0 THEN JwtDenied("delete_node", cred)
       ELSE IF NodeRow(workspace_id, node_id)
       THEN /\ nodes' = DictDel(nodes, node_id)
            /\ Respond(ApiReq("delete_node", cred, workspace_id, node_id, 204, "", TRUE, TRUE))
            /\ UNCHANGED <<id_seq, workspaces, assets, chat_messages>>
       ELSE /\ Respond(ApiReq("delete_node", cred, workspace_id, node_id,
                              404, "Node not found", TRUE, FALSE))
            /\ UNCHANGED ApiTables

\* ---- app/api/workspaces.py with WorkspaceService ----
create_workspace(cred, collaborator_ids) ==
    /\ Len(apiReqs) < NumApiReqs
    /\ IF ~HTTPBearer(cred) THEN BearerDenied("create_workspace", cred)
       ELSE IF get_current_user_id(cred) = 0 THEN JwtDenied("create_workspace", cred)
       ELSE /\ id_seq' = [id_seq EXCEPT !.workspaces = @ + 1]
            /\ workspaces' = DictPut(workspaces, id_seq'.workspaces,
                   [id |-> id_seq'.workspaces, user_id |-> get_current_user_id(cred),
                    users |-> collaborator_ids \cap DOMAIN users])
            /\ Respond(ApiReq("create_workspace", cred, id_seq'.workspaces, 0, 201, "",
                              collaborator_ids # {}, TRUE))
            /\ UNCHANGED <<assets, nodes, chat_messages>>

list_workspaces(cred) ==
    /\ Len(apiReqs) < NumApiReqs
    /\ IF ~HTTPBearer(cred) THEN BearerDenied("list_workspaces", cred)
       ELSE IF get_current_user_id(cred) = 0 THEN JwtDenied("list_workspaces", cred)
       ELSE /\ Respond(ApiReq("list_workspaces", cred, 0, 0, 200, "", TRUE, FALSE))
            /\ UNCHANGED ApiTables

\* ---- app/api/boards.py: Depends(get_current_user_id) ----
BoardEndpoints ==
    {"create_board", "get_user_boards", "get_board", "update_board", "delete_board",
     "get_board_stats"}

\* A board request whose credentials the dependency turns down; the handler
\* does not run.
board_request_denied(endpoint, cred) ==
    /\ Len(apiReqs) < NumApiReqs
    /\ ~(HTTPBearer(cred) /\ get_current_user_id(cred) # 0)
    /\ IF ~HTTPBearer(cred) THEN BearerDenied(endpoint, cred) ELSE JwtDenied(endpoint, cred)

OtherThanApi == <<varsWf, varsOrch, varsUsers, varsOtp, varsBoards, varsOtpManager, varsAi>>

ApiSendMessage == \E cred \in Credentials, w \in AskedWorkspaceIds : send_message(cred, w, "c1") /\ UNCHANGED OtherThanApi
ApiChatHistory == \E cred \in Credentials, w \in AskedWorkspaceIds : get_chat_history(cred, w) /\ UNCHANGED OtherThanApi
ApiGetMessage == \E cred \in Credentials, w \in AskedWorkspaceIds, m \in AskedItemIds : get_message(cred, w, m) /\ UNCHANGED OtherThanApi
ApiUpdateMessage == \E cred \in Credentials, w \in AskedWorkspaceIds, m \in AskedItemIds : update_message(cred, w, m, "c2") /\ UNCHANGED OtherThanApi
ApiDeleteMessage == \E cred \in Credentials, w \in AskedWorkspaceIds, m \in AskedItemIds : delete_message(cred, w, m) /\ UNCHANGED OtherThanApi
ApiClearHistory == \E cred \in Credentials, w \in AskedWorkspaceIds : clear_history(cred, w) /\ UNCHANGED OtherThanApi
ApiCreateAsset == \E cred \in Credentials, w \in AskedWorkspaceIds, t \in AssetTypes, url \in {"u1", "None"} : create_asset(cred, w, t, url) /\ UNCHANGED OtherThanApi
ApiListAssets == \E cred \in Credentials, w \in AskedWorkspaceIds, t \in AssetTypes : list_assets(cred, w, t) /\ UNCHANGED OtherThanApi
ApiGetAsset == \E cred \in Credentials, w \in AskedWorkspaceIds, a \in AskedItemIds, t \in AssetTypes : get_asset(cred, w, a, t) /\ UNCHANGED OtherThanApi
ApiUpdateAsset == \E cred \in Credentials, w \in AskedWorkspaceIds, a \in AskedItemIds, t \in AssetTypes, url \in UpdateUrls, md \in UpdateMetadata : update_asset(cred, w, a, t, url, md) /\ UNCHANGED OtherThanApi
ApiDeleteAsset == \E cred \in Credentials, w \in AskedWorkspaceIds, a \in AskedItemIds, t \in AssetTypes : delete_asset(cred, w, a, t) /\ UNCHANGED OtherThanApi
ApiCreateNode == \E cred \in Credentials, w \in AskedWorkspaceIds, a \in AskedItemIds : create_node(cred, w, a, 1) /\ UNCHANGED OtherThanApi
ApiListNodes == \E cred \in Credentials, w \in AskedWorkspaceIds : list_nodes(cred, w) /\ UNCHANGED OtherThanApi
ApiGetNode == \E cred \in Credentials, w \in AskedWorkspaceIds, n \in AskedItemIds : get_node(cred, w, n) /\ UNCHANGED OtherThanApi
ApiUpdateNode == \E cred \in Credentials, w \in AskedWorkspaceIds, n \in AskedItemIds : update_node(cred, w, n, "m1") /\ UNCHANGED OtherThanApi
ApiDeleteNode == \E cred \in Credentials, w \in AskedWorkspaceIds, n \in AskedItemIds : delete_node(cred, w, n) /\ UNCHANGED OtherThanApi
ApiCreateWorkspace == \E cred \in Credentials, c \in {{}, {2}} : create_workspace(cred, c) /\ UNCHANGED OtherThanApi
ApiListWorkspaces == \E cred \in Credentials : list_workspaces(cred) /\ UNCHANGED OtherThanApi
ApiBoardDenied == \E cred \in Credentials, e \in BoardEndpoints : board_request_denied(e, cred) /\ UNCHANGED OtherThanApi

NextApi ==
    \/ ApiSendMessage \/ ApiChatHistory \/ ApiGetMessage \/ ApiUpdateMessage
    \/ ApiDeleteMessage \/ ApiClearHistory
    \/ ApiCreateAsset \/ ApiListAssets \/ ApiGetAsset \/ ApiUpdateAsset \/ ApiDeleteAsset
    \/ ApiCreateNode \/ ApiListNodes \/ ApiGetNode \/ ApiUpdateNode \/ ApiDeleteNode
    \/ ApiCreateWorkspace \/ ApiListWorkspaces \/ ApiBoardDenied

\* The workspace-scoped tables as a run starts: workspace 1 of user 1 holds
\* one asset, one node and one chat message.
InitApi ==
    /\ workspaces = <<[id |-> 1, user_id |-> 1, users |-> {}]>>
    /\ assets = <<[id |-> 1, type |-> "social", url |-> "u0", content |-> "None",
                   asset_metadata |-> "empty", workspace_id |-> 1, user_id |-> 1]>>
    /\ nodes = <<[id |-> 1, workspace_id |-> 1, source_asset_id |-> 1,
                  target_asset_id |-> 1, node_metadata |-> "empty"]>>
    /\ chat_messages = <<[id |-> 1, workspace_id |-> 1, role |-> "user", content |-> "c0"]>>
    /\ id_seq = [workspaces |-> 1, assets |-> 1, nodes |-> 1, chat_messages |-> 1]
    /\ apiReqs = <<>>

(***************************************************************************)
(* Specifications                                                          *)
(***************************************************************************)
\* The start of the runs that do not go through the auth routers: auth.py
\* mounted, two users registered.
InitRegistered ==
    /\ users = <<UserA, UserB>>
    /\ authReqs = <<>>
    /\ oauth_states = [issued |-> 0, live |-> {}]
    /\ router = "auth"

Init == InitWf /\ InitOrch /\ InitAi /\ InitRegistered /\ InitOtp /\ InitBoards /\ InitApi

\* The start of the runs of the auth routers: either router, with or without
\* registered users.
InitAuth == InitWf /\ InitOrch /\ InitAi /\ InitUsers /\ InitOtp /\ InitBoards /\ InitApi

\* The start of the runs of the password-reset flow: a users table in which
\* b@x.io is registered or is not.
InitReset ==
    /\ InitWf /\ InitOrch /\ InitAi /\ InitOtp /\ InitBoards /\ InitApi
    /\ users \in {<<UserA>>, <<UserA, UserB>>}
    /\ authReqs = <<>>
    /\ oauth_states = [issued |-> 0, live |-> {}]
    /\ router = "auth"

SpecWorkflow == Init /\ [][NextWf]_vars

SpecOrch == Init /\ [][NextOrch]_vars

\* One batch_process_media call on its own, under fair scheduling.
SpecBatch == Init /\ [][NextBatch]_vars /\ FairOrch

\* The start of the runs of the login flow: b@x.io is unknown, registered
\* with a password, or signed in through Google only.
InitLogin ==
    /\ InitWf /\ InitOrch /\ InitAi /\ InitOtp /\ InitBoards /\ InitApi
    /\ users \in {<<UserA>>, <<UserA, UserB>>, <<UserA, UserG>>}
    /\ authReqs = <<>>
    /\ oauth_states = [issued |-> 0, live |-> {}]
    /\ router \in {"auth", "auth_db"}

SpecUsers == InitAuth /\ [][NextUsers]_vars

SpecLogin == InitLogin /\ [][NextLogin]_vars

SpecOtp == InitReset /\ [][NextOtp]_vars

SpecOtpManager == Init /\ [][NextOtpManager]_vars

SpecBoards == Init /\ [][NextBoards]_vars

SpecAi == Init /\ [][NextAi]_vars

\* get_system_stats and the health endpoint over the histories and
\* active-job dictionaries the orchestrator can hold.
InitSystemStats == InitWf /\ InitStats /\ InitRegistered /\ InitOtp /\ InitBoards /\ InitApi

SpecStats == InitSystemStats /\ [][NextStats]_vars

SpecApi == Init /\ [][NextApi]_vars

(***************************************************************************)
(* Claims                                                                  *)
(***************************************************************************)
\* The position of a stage in the pipeline.
StageOrder(stage) ==
    CASE stage = "transcribe" -> 1
      [] stage = "analyze" -> 2
      [] stage = "generate_content" -> 3

InSeq(x, sq) == \E i \in DOMAIN sq : sq[i] = x

\* C2 (as claimed): when a run has ended, every stage that failed has left its
\* message in errors and the returned processing_status is "error".
C2_FailureMarksError ==
    \A r \in Runs :
        (wf[r].node = "END" /\ wf[r].failed # {}) =>
            /\ \A st \in wf[r].failed : InSeq(StageError(st), wf[r].state.errors)
            /\ wf[r].state.processing_status = "error"

\* C10: a run visits its stages in the order transcribe, analyze,
\* generate_content, each at most once, starts with transcribe, ends right
\* after generate_content, and can always take its next step until it has
\* ended (so it ends after at most three steps), also after a stage failed.
C10_SinglePassTerminates ==
    \A r \in Runs :
        LET v == wf[r].visited IN
        /\ \A i, j \in DOMAIN v : i < j => StageOrder(v[i]) < StageOrder(v[j])
        /\ Len(v) >= 1 => v[1] = "transcribe"
        /\ wf[r].node = "END" => (Len(v) >= 1 /\ v[Len(v)] = "generate_content")
        /\ wf[r].node \in Stages =>
              /\ \A i \in DOMAIN v : StageOrder(v[i]) < StageOrder(wf[r].node)
              /\ ENABLED WfStep(r)
        /\ wf[r].node \in Stages \cup {"idle", "END"}

\* C10 witness: a run that went through all three stages, one of which failed,
\* and has ended.
C10_Witness ==
    \E r \in Runs :
        /\ wf[r].node = "END"
        /\ wf[r].visited = <<"transcribe", "analyze", "generate_content">>
        /\ "analyze" \in wf[r].failed

\* process_media_file executions in progress: started and not yet returned.
InProgress(E) == {e \in E : execs[e].pc = "running"}

\* C1 (as claimed): over all batch_process_media calls together, at most 3
\* process_media_file executions started by a batch are in progress.
C1_GlobalCap ==
    Cardinality(InProgress({e \in ExecIds : execs[e].batch # 0})) <= 3

\* C1 (amended): within each batch_process_media call, at most 3 of the
\* process_media_file executions it started are in progress.
C1_PerBatchCap ==
    \A b \in BatchIds : Cardinality(InProgress(ExecsOfBatch(b))) <= 3

\* C1 witness: a batch with 3 executions in progress and a further one held
\* back by the semaphore.
C1_Witness ==
    \E b \in BatchIds :
        /\ Cardinality(InProgress(ExecsOfBatch(b))) = 3
        /\ \E e \in ExecsOfBatch(b) : execs[e].pc = "waiting"

\* C9 (as claimed): whenever a process_media_file execution returns, its media
\* file is absent from active_jobs and exactly one record for that media file
\* has been appended to job_history.
C9_ReturnRecordsJob ==
    [][\A e \in ExecIds :
          (execs[e].pc = "running" /\ execs'[e].pc = "done") =>
              /\ execs[e].media \notin DOMAIN active_jobs'
              /\ Len(job_history') = Len(job_history) + 1
              /\ job_history'[Len(job_history')].media_file_id = execs[e].media]_vars

\* C5: no two user records have the same email.
C5_EmailUnique ==
    \A u, v \in UserIds : u # v => users[u].email # users[v].email

\* C5 witness: two registrations of one email both passed the email lookup,
\* the first created the user and the second was turned down at its commit.
C5_Witness ==
    \E r, q \in ReqIds :
        /\ r # q
        /\ authReqs[r].kind = "register" /\ authReqs[q].kind = "register"
        /\ authReqs[r].email = authReqs[q].email
        /\ authReqs[r].pc = "done" /\ authReqs[r].resp.status = 200
        /\ authReqs[q].pc = "done" /\ authReqs[q].uid = 0 /\ authReqs[q].resp.status = 500

\* An OAuth login that would overwrite a user's email with another user's
\* email has been turned down by the database.
C5_OAuthOverwriteRejected ==
    \E r \in ReqIds :
        /\ authReqs[r].kind = "oauth" /\ authReqs[r].pc = "done" /\ authReqs[r].uid # 0
        /\ authReqs[r].resp.token.signer # "app"
        /\ users[authReqs[r].uid].google_id = authReqs[r].gid
        /\ users[authReqs[r].uid].email # authReqs[r].email

\* C7 (as claimed): a registration with matching, strong passwords whose email
\* already belongs to a user is answered 400 'User with this email already
\* exists', with no token.
C7_DuplicateEmail400 ==
    \A r \in ReqIds :
        (authReqs[r].kind = "register" /\ authReqs[r].pc = "done" /\ authReqs[r].uid # 0) =>
            /\ authReqs[r].resp.status = 400
            /\ authReqs[r].resp.detail = "User with this email already exists"
            /\ authReqs[r].resp.token = NoToken

\* A request is answered in this step.
Answered(r) == authReqs[r].pc # "done" /\ authReqs'[r].pc = "done"

\* The response carries a JWT of this application for user row uid.
HasAppToken(resp, uid) ==
    /\ resp.token.signer = "app"
    /\ resp.token.sub = uid
    /\ resp.user_id = uid

\* C8 (as claimed): every successful response of register, login and the OAuth
\* callback carries a JWT signed by the application whose sub is the id of the
\* authenticated user's record.
C8_SuccessHasAppToken ==
    [][\A r \in ReqIds :
          (Answered(r) /\ authReqs'[r].resp.status = 200) =>
              \E u \in DOMAIN users' : HasAppToken(authReqs'[r].resp, u)]_vars

\* C8 (amended): a successful register or login response, and a successful
\* OAuth callback response whose user was saved, carries the application's JWT
\* whose sub is the id of an existing user record: the record just created
\* (register), the record the password was verified against (login), the
\* record create_or_update_oauth_user found or created (OAuth). The only
\* successful response without such a token is the fallback of auth.py's
\* callback after create_or_update_oauth_user failed; it carries Google's
\* access token and no user was saved.
C8_SuccessHasAppTokenUnlessFallback ==
    [][\A r \in ReqIds :
          (Answered(r) /\ authReqs'[r].resp.status = 200) =>
              LET q == authReqs'[r] IN
              \/ /\ q.kind = "register"
                 /\ \E u \in DOMAIN users' : /\ HasAppToken(q.resp, u)
                                             /\ u \notin DOMAIN users
                                             /\ users'[u].email = q.email
              \/ /\ q.kind = "login"
                 /\ \E u \in DOMAIN users' : /\ HasAppToken(q.resp, u)
                                             /\ u = authReqs[r].uid
                                             /\ verify_password(q.password, users'[u].hashed_password)
              \/ /\ q.kind = "oauth"
                 /\ \E u \in DOMAIN users' : /\ HasAppToken(q.resp, u)
                                             /\ IF authReqs[r].uid # 0
                                                THEN u = authReqs[r].uid
                                                ELSE u \notin DOMAIN users
              \/ /\ q.kind = "oauth" /\ router = "auth"
                 /\ q.resp.token = GoogleToken
                 /\ users' = users]_vars

\* C8 witness: the three kinds of token-carrying successes are all reachable;
\* here, an OAuth callback that linked or created a user and answered with
\* the application's JWT for that row.
C8_Witness ==
    \E r \in ReqIds :
        /\ authReqs[r].kind = "oauth" /\ authReqs[r].pc = "done"
        /\ authReqs[r].resp.status = 200
        /\ authReqs[r].resp.token.signer = "app"
        /\ authReqs[r].resp.token.sub \in UserIds
        /\ users[authReqs[r].resp.token.sub].google_id = authReqs[r].gid

\* A generate_otp for the email by a request logged strictly between i and j.
GeneratedBetween(email, i, j) ==
    \E k \in OtpReqIds :
        /\ i < k /\ k < j
        /\ otpReqs[k].kind = "forgot" /\ otpReqs[k].generated
        /\ otpReqs[k].email = email

\* C6: an OTP is one-time. Requests are logged in the order of their
\* verify_otp and generate_otp calls: of two reset-password requests for the
\* same email whose verify_otp returned True, the later one comes after a
\* generate_otp for that email that follows the earlier one; and
\* reset-password answers 200 only after verify_otp returned True.
C6_OtpOneTime ==
    /\ \A i, j \in OtpReqIds :
          (/\ i < j
           /\ otpReqs[i].kind = "reset" /\ otpReqs[i].verified
           /\ otpReqs[j].kind = "reset" /\ otpReqs[j].verified
           /\ otpReqs[i].email = otpReqs[j].email)
          => GeneratedBetween(otpReqs[i].email, i, j)
    /\ \A i \in OtpReqIds :
          (otpReqs[i].kind = "reset" /\ otpReqs[i].resp.status = 200) => otpReqs[i].verified

\* C6 witness: a reset-password request whose OTP verified and that reset the
\* password, followed by a request with the same email and code that was
\* answered 'Invalid or expired OTP', no OTP generated in between.
C6_Witness ==
    \E i, j \in OtpReqIds :
        /\ i < j
        /\ otpReqs[i].kind = "reset" /\ otpReqs[i].verified /\ otpReqs[i].resp.status = 200
        /\ otpReqs[j].kind = "reset" /\ ~otpReqs[j].verified
        /\ otpReqs[j].email = otpReqs[i].email /\ otpReqs[j].otp = otpReqs[i].otp
        /\ otpReqs[j].resp = OtpResp(400, "Invalid or expired OTP")
        /\ ~GeneratedBetween(otpReqs[i].email, i, j)

\* Board request r takes a step: it is logged, or its logged record changes.
BoardReqSteps(r) ==
    /\ r \in DOMAIN boardReqs'
    /\ r \in DOMAIN boardReqs => boardReqs'[r] # boardReqs[r]

\* Board request r is answered in this step.
BoardReqAnswered(r) ==
    /\ r \in DOMAIN boardReqs'
    /\ boardReqs'[r].pc = "done"
    /\ r \in DOMAIN boardReqs => boardReqs[r].pc # "done"

\* C4: boards are visible and writable to their owner only. A GET, PUT or
\* DELETE of an existing board by an authenticated user who is not its owner is
\* answered 404; no step of a request changes or removes a board that the
\* caller does not own; and every board in a list or search result returned to
\* a caller is owned by that caller.
C4_ForeignBoardHidden ==
    [][\A r \in DOMAIN boardReqs' :
          LET q == boardReqs'[r] IN
          /\ (/\ BoardReqAnswered(r)
              /\ q.op \in {"get", "update", "delete"}
              /\ q.board_id \in DOMAIN boards
              /\ boards[q.board_id].user_id # q.caller)
             => (q.status = 404 /\ q.detail = "Board not found" /\ q.board = NoBoard)
          /\ BoardReqSteps(r) =>
                \A b \in DOMAIN boards :
                    boards[b].user_id # q.caller =>
                        (b \in DOMAIN boards' /\ boards'[b] = boards[b])
          /\ (BoardReqAnswered(r) /\ q.op = "list") =>
                \A k \in DOMAIN q.boards : q.boards[k].user_id = q.caller]_vars

\* C4 witness: user 2 asked to update board 1, which user 1 owns, and was
\* answered 404; user 2 then listed their boards and got board 2 only; board 1
\* is still stored as it was.
C4_Witness ==
    \E r, q \in BoardReqIds :
        /\ boardReqs[r].op = "update" /\ boardReqs[r].caller = 2 /\ boardReqs[r].board_id = 1
        /\ boardReqs[r].pc = "done" /\ boardReqs[r].status = 404
        /\ boardReqs[q].op = "list" /\ boardReqs[q].caller = 2 /\ boardReqs[q].pc = "done"
        /\ boardReqs[q].search = <<>> /\ boardReqs[q].total = 1
        /\ Len(boardReqs[q].boards) = 1 /\ boardReqs[q].boards[1].id = 2
        /\ 1 \in DOMAIN boards /\ boards[1] = InitialBoards[1]

\* Reachable too: a DELETE and a GET of a foreign board, both answered 404.
C4_ForeignDeleteAndGet ==
    \E r, q \in BoardReqIds :
        /\ boardReqs[r].op = "delete" /\ boardReqs[q].op = "get"
        /\ boardReqs[r].caller # boards[boardReqs[r].board_id].user_id
        /\ boardReqs[q].caller # boards[boardReqs[q].board_id].user_id
        /\ boardReqs[r].status = 404 /\ boardReqs[q].status = 404

\* The request carries a valid bearer JWT: Bearer scheme, signed by the
\* application, unexpired.
ValidJwt(cred) == cred.scheme = "bearer" /\ cred.signer = "app" /\ ~cred.expired

\* C3 (as claimed): every board, workspace, asset, node and chat request that
\* does not carry a valid bearer JWT is answered 401 or 403 and neither reads
\* nor writes the database.
C3_UnauthenticatedRejected ==
    \A r \in DOMAIN apiReqs :
        ~ValidJwt(apiReqs[r].cred) =>
            /\ apiReqs[r].status \in {401, 403}
            /\ ~apiReqs[r].db_read
            /\ ~apiReqs[r].db_write

\* A run that has left the transcribe node, so its route is decided.
Routed(r) == wf[r].visited # <<>>

\* The node a routed run went to after transcribe.
Route(r) == IF Len(wf[r].visited) >= 2 THEN wf[r].visited[2] ELSE wf[r].node

BoardTouchedBetween(i, g, id) ==
    \E k \in BoardReqIds :
        /\ i < k /\ k < g
        /\ boardReqs[k].op \in {"update", "delete"}
        /\ boardReqs[k].board_id = id

\* C12, create then read: a get_board by the creator of a board that no update
\* or delete was asked for in between returns 200 and the board with the
\* created (validated, so stripped) title, description and privacy flag.
C12_CreateThenGet ==
    \A c, g \in BoardReqIds :
        (/\ c < g
         /\ boardReqs[c].op = "create" /\ boardReqs[c].status = 201
         /\ boardReqs[g].op = "get"
         /\ boardReqs[g].caller = boardReqs[c].caller
         /\ boardReqs[g].board_id = boardReqs[c].board_id
         /\ ~BoardTouchedBetween(c, g, boardReqs[c].board_id))
        => /\ boardReqs[g].status = 200
           /\ boardReqs[g].board.id = boardReqs[c].board_id
           /\ boardReqs[g].board.title = strip(boardReqs[c].body.title)
           /\ boardReqs[g].board.description = boardReqs[c].body.description
           /\ boardReqs[g].board.is_private = boardReqs[c].body.is_private

\* A delete_board of board id by user u has answered 200.
DeletedBy(u, id) ==
    \E d \in BoardReqIds :
        /\ boardReqs[d].op = "delete" /\ boardReqs[d].pc = "done"
        /\ boardReqs[d].status = 200
        /\ boardReqs[d].caller = u /\ boardReqs[d].board_id = id

\* C12, after delete: a get, update or delete that arrives after a delete_board
\* of the same id by the same user has succeeded is answered 404 at once and
\* leaves the boards table as it is.
C12_AfterDelete ==
    Len(boardReqs') = Len(boardReqs) + 1 =>
        LET q == boardReqs'[Len(boardReqs')] IN
        (q.op \in {"get", "update", "delete"} /\ DeletedBy(q.caller, q.board_id))
            => /\ q.pc = "done" /\ q.status = 404 /\ q.detail = "Board not found"
               /\ boards' = boards

C12_CreateThenGetReached ==
    /\ Len(boardReqs) = 2
    /\ boardReqs[1].op = "create" /\ boardReqs[1].body.title = <<" ", "c">>
    /\ boardReqs[1].body.is_private = FALSE
    /\ boardReqs[2].op = "get" /\ boardReqs[2].status = 200
    /\ boardReqs[2].board.title = <<"c">>

\* The caller's boards a list request is about: owned by u and, when a search
\* term is given, with the term in the title.
ListedBoards(u, search) ==
    {i \in DOMAIN boards :
        boards[i].user_id = u /\ (search = <<>> \/ ilike(boards[i].title, search))}

\* sq lists the boards of S, each once, by updated_at descending.
ByUpdatedAtDesc(sq, S) ==
    /\ DOMAIN sq = 1..Cardinality(S)
    /\ \A i \in S : \E k \in DOMAIN sq : sq[k] = i
    /\ \A k, l \in DOMAIN sq : k < l => boards[sq[k]].updated_at >= boards[sq[l]].updated_at

\* The response q holds the rows at positions (page-1)*per_page+1 ..
\* page*per_page of some listing of S by updated_at descending.
IsPageOf(q, S) ==
    \E sq \in [1..Cardinality(S) -> S] :
        /\ ByUpdatedAtDesc(sq, S)
        /\ LET first == (q.page - 1) * q.per_page + 1
               last == IF q.page * q.per_page < Cardinality(S)
                       THEN q.page * q.per_page ELSE Cardinality(S)
           IN /\ Len(q.boards) = (IF last < first THEN 0 ELSE last - first + 1)
              /\ \A k \in DOMAIN q.boards : q.boards[k] = boards[sq[first + k - 1]]

\* A list request arrives: it is refused with 422 exactly when page < 1 or
\* per_page is outside 1..100, and an accepted one counts the caller's boards.
C13_Arrival ==
    (Len(boardReqs') = Len(boardReqs) + 1 /\ boardReqs'[Len(boardReqs')].op = "list") =>
        LET q == boardReqs'[Len(boardReqs')] IN
        /\ (q.pc = "done" /\ q.status = 422) <=>
              ~(q.page >= 1 /\ q.per_page >= 1 /\ q.per_page <= 100)
        /\ q.status # 422 =>
              /\ q.pc = "select"
              /\ q.total = Cardinality(ListedBoards(q.caller, q.search))

\* Request r is answered with its page in this step.
ListAnswered(r) ==
    /\ r \in DOMAIN boardReqs /\ boardReqs[r].op = "list" /\ boardReqs[r].pc = "select"
    /\ boardReqs'[r].pc = "done"

\* The page of an answered list request: 200, at most per_page boards, all of
\* them the caller's, at the asked positions of the caller's boards.
C13_Page ==
    \A r \in DOMAIN boardReqs :
        ListAnswered(r) =>
            LET q == boardReqs'[r] IN
            /\ q.status = 200
            /\ Len(q.boards) <= q.per_page
            /\ \A k \in DOMAIN q.boards : q.boards[k].user_id = q.caller
            /\ IsPageOf(q, ListedBoards(q.caller, q.search))

CallbackArrives ==
    /\ Len(authReqs') = Len(authReqs) + 1
    /\ authReqs'[Len(authReqs')].kind = "oauth"

\* The request of the callback a step receives, as the step leaves it.
ArrivedCallback == authReqs'[Len(authReqs')]

\* The callbacks that went on to the code-for-token exchange.
Exchanging == {r \in DOMAIN authReqs :
                  authReqs[r].kind = "oauth" /\ authReqs[r].query = "ok"
                  /\ authReqs[r].resp.detail # "Invalid state parameter"}

\* A callback goes on to the exchange only with a state that google_login
\* issued and no callback has consumed, and consumes one such state; one with
\* another state is turned down without contacting Google, and consumes
\* nothing.
C14_OnlyLiveStateProceeds ==
    CallbackArrives =>
        /\ ArrivedCallback.pc = "oauth_exchange" =>
              /\ ArrivedCallback.state_kind = "live"
              /\ \E st \in oauth_states.live :
                    /\ st \in 1..oauth_states.issued
                    /\ oauth_states'.live = oauth_states.live \ {st}
        /\ ArrivedCallback.state_kind # "live" =>
              /\ ArrivedCallback.pc = "done"
              /\ ArrivedCallback.resp.status \in {400, 422}
              /\ ArrivedCallback.resp.token = NoToken
              /\ oauth_states' = oauth_states
              /\ users' = users

\* C14 (as claimed): moreover every callback whose state is unknown or used
\* is answered 400 'Invalid state parameter'.
C14_BadStateInvalidState400 ==
    [][/\ C14_OnlyLiveStateProceeds
       /\ (CallbackArrives /\ ArrivedCallback.state_kind # "live") =>
             /\ ArrivedCallback.resp.status = 400
             /\ ArrivedCallback.resp.detail = "Invalid state parameter"]_vars

\* C14 (amended): the answer is 400 'Invalid state parameter' when the callback
\* carries a code and a state and no error parameter; the number of callbacks
\* that went on to the exchange is the number of states consumed.
C14_BadStateRejected ==
    [][/\ C14_OnlyLiveStateProceeds
       /\ (CallbackArrives /\ ArrivedCallback.state_kind # "live" /\ ArrivedCallback.query = "ok") =>
             /\ ArrivedCallback.resp.status = 400
             /\ ArrivedCallback.resp.detail = "Invalid state parameter"
       /\ (Cardinality(Exchanging) = oauth_states.issued - Cardinality(oauth_states.live))']_vars

\* C14 witness: a callback consumed the one state issued and went on; a second
\* callback with the same state was answered 400 'Invalid state parameter'.
C14_Witness ==
    /\ Len(authReqs) = 2
    /\ oauth_states.issued = 1
    /\ authReqs[1].kind = "oauth" /\ authReqs[1].state_kind = "live"
    /\ authReqs[1].pc # "done"
    /\ authReqs[2].kind = "oauth" /\ authReqs[2].state_kind = "used"
    /\ authReqs[2].resp.status = 400
    /\ authReqs[2].resp.detail = "Invalid state parameter"

\* C15: every answered forgot-password request got 200 and the one message,
\* whether its email is registered or not and whatever became of generate_otp
\* and send_otp_email; an OTP was generated, and is stored, only for the email
\* of an existing user.
C15_ForgotPasswordUniform ==
    /\ \A r \in OtpReqIds :
          otpReqs[r].kind = "forgot" =>
              /\ otpReqs[r].pc = "done" => otpReqs[r].resp = OtpResp(200, ForgotMessage)
              /\ otpReqs[r].pc \in {"done", "send_otp_email"}
              /\ (otpReqs[r].generated \/ otpReqs[r].pc = "send_otp_email")
                    => \E u \in DOMAIN users : users[u].email = otpReqs[r].email
    /\ \A e \in DOMAIN otp_storage : \E u \in DOMAIN users : users[u].email = e

\* C15 witness: three answered requests with the same answer: one for an
\* unregistered email, one for a registered email whose OTP email could not be
\* sent, one that raised before an OTP was stored.
C15_Witness ==
    \E i, j, k \in OtpReqIds :
        /\ otpReqs[i].kind = "forgot" /\ otpReqs[i].pc = "done"
        /\ otpReqs[j].kind = "forgot" /\ otpReqs[j].pc = "done"
        /\ otpReqs[k].kind = "forgot" /\ otpReqs[k].pc = "done"
        /\ ~\E u \in DOMAIN users : users[u].email = otpReqs[i].email
        /\ otpReqs[i].outcome = "none"
        /\ otpReqs[j].generated /\ otpReqs[j].outcome = "not_sent"
        /\ otpReqs[k].outcome = "raised" /\ ~otpReqs[k].generated
        /\ otpReqs[i].resp = otpReqs[j].resp /\ otpReqs[j].resp = otpReqs[k].resp
        /\ otpReqs[j].email \in DOMAIN otp_storage

\* The asset, node and chat-message operations.
WorkspaceScoped ==
    {"send_message", "get_chat_history", "get_message", "update_message", "delete_message",
     "clear_history", "create_asset", "list_assets", "get_asset", "update_asset",
     "delete_asset", "create_node", "list_nodes", "get_node", "update_node", "delete_node"}

\* User u owns workspace w or collaborates on it.
MemberOf(u, w) ==
    /\ w \in DOMAIN workspaces
    /\ workspaces[w].user_id = u \/ u \in workspaces[w].users

\* C16 (as claimed): an asset, node or chat-message request with a valid token,
\* addressed to an existing workspace the caller neither owns nor collaborates
\* on, was answered 403 or 404 and wrote nothing.
C16_ForeignWorkspaceRefused ==
    \A r \in DOMAIN apiReqs :
        (/\ apiReqs[r].endpoint \in WorkspaceScoped
         /\ ValidJwt(apiReqs[r].cred)
         /\ apiReqs[r].workspace_id \in DOMAIN workspaces
         /\ ~MemberOf(get_current_user_id(apiReqs[r].cred), apiReqs[r].workspace_id))
        => /\ apiReqs[r].status \in {403, 404}
           /\ ~apiReqs[r].db_write

\* The step is a verify_otp call for email e.
VerifyCall(e) == otp_calls'[e].verifies = otp_calls[e].verifies + 1

\* C17: of the verify_otp calls for one generated OTP at most 3 reach the
\* comparison with the stored code, and once 3 of them have failed every
\* further one returns False, whatever code it is given, until generate_otp
\* is called for the email again.
C17_AttemptLimit ==
    [][\A e \in Emails :
          /\ otp_calls'[e].compared <= 3
          /\ (VerifyCall(e) /\ otp_calls[e].failed >= 3) =>
                /\ otp_calls'[e].last_result = "False"
                /\ otp_calls'[e].compared = otp_calls[e].compared
          /\ (VerifyCall(e) /\ otp_calls'[e].last_result = "True") =>
                /\ otp_calls'[e].last_correct
                /\ otp_calls[e].failed < 3]_vars

\* C17 witness: an OTP that has not expired, three wrong codes, then the right
\* code, and verify_otp returned False for it.
C17_Witness ==
    \E e \in Emails :
        /\ otp_calls[e].generated >= 1
        /\ ~(now > otp_calls[e].generated_at + 10)
        /\ otp_calls[e].verifies = 4 /\ otp_calls[e].failed = 4 /\ otp_calls[e].compared = 3
        /\ otp_calls[e].last_correct /\ otp_calls[e].last_result = "False"

\* C18: a verify_otp call later than 10 minutes after the generate_otp call of
\* the email's OTP returns False, whatever code it is given, and leaves no OTP
\* stored for the email; a call up to that time with the right code, before
\* three calls have failed, returns True.
C18_ExpiredOtpRejected ==
    [][\A e \in Emails :
          (VerifyCall(e) /\ otp_calls[e].generated >= 1) =>
              /\ now > otp_calls[e].generated_at + 10 =>
                    /\ otp_calls'[e].last_result = "False"
                    /\ e \notin DOMAIN otp_storage'
                    /\ otp_calls'[e].compared = otp_calls[e].compared
              /\ (/\ ~(now > otp_calls[e].generated_at + 10)
                  /\ otp_calls'[e].last_correct
                  /\ otp_calls[e].failed = otp_calls[e].verifies
                  /\ otp_calls[e].failed < 3) =>
                    otp_calls'[e].last_result = "True"]_vars

\* C18 witness: the right code, given for the first time 20 minutes after
\* generate_otp, was refused, and the OTP is gone.
C18_Witness ==
    \E e \in Emails :
        /\ otp_calls[e].generated >= 1
        /\ now > otp_calls[e].generated_at + 10
        /\ otp_calls[e].verifies = 1 /\ otp_calls[e].compared = 0
        /\ otp_calls[e].last_correct /\ otp_calls[e].last_result = "False"
        /\ e \notin DOMAIN otp_storage

\* The step receives a reset-password request.
ResetArrives ==
    /\ Len(otpReqs') = Len(otpReqs) + 1
    /\ otpReqs'[Len(otpReqs')].kind = "reset"

\* The reset-password request a step receives, as the step leaves it.
ArrivedReset == otpReqs'[Len(otpReqs')]

\* A step that changes the users table is the commit of a reset-password
\* request whose verify_otp for the email of the changed user returned True;
\* it changes that user's password hash, to the hash of the request's new
\* password, and nothing else.
C19_HashChangedByVerifiedRequest ==
    users' # users =>
        \E r \in DOMAIN otpReqs, u \in DOMAIN users :
            /\ otpReqs[r].kind = "reset" /\ otpReqs[r].verified
            /\ otpReqs[r].pc = "commit" /\ otpReqs'[r].pc = "done"
            /\ otpReqs'[r].resp = OtpResp(200, "Password reset successfully")
            /\ users[u].email = otpReqs[r].email
            /\ users' = [users EXCEPT ![u].hashed_password = hash_password(otpReqs[r].password)]

\* A request whose OTP does not verify is answered 400 in the step that
\* receives it and changes no user.
C19_BadOtpRefused ==
    (ResetArrives /\ ~ArrivedReset.otp_valid) =>
        /\ ArrivedReset.pc = "done" /\ ArrivedReset.resp.status = 400
        /\ ~ArrivedReset.verified
        /\ users' = users

\* C19 (as claimed): moreover the answer to every request with a wrong,
\* expired, exhausted or never-generated OTP is 400 'Invalid or expired OTP'.
C19_BadOtpInvalidOtp400 ==
    [][/\ C19_HashChangedByVerifiedRequest
       /\ C19_BadOtpRefused
       /\ (ResetArrives /\ ~ArrivedReset.otp_valid) =>
             ArrivedReset.resp = OtpResp(400, "Invalid or expired OTP")]_vars

\* C19 (amended): the answer is 400 'Invalid or expired OTP' when the two
\* passwords of the request match and meet the strength rules.
C19_ResetOnlyAfterVerify ==
    [][/\ C19_HashChangedByVerifiedRequest
       /\ C19_BadOtpRefused
       /\ (ResetArrives /\ ~ArrivedReset.otp_valid /\ ArrivedReset.passwords_ok) =>
             ArrivedReset.resp = OtpResp(400, "Invalid or expired OTP")]_vars

\* C19 witness: a request with a wrong code was answered 400 'Invalid or
\* expired OTP', then a request with the right code changed the password hash
\* of the user with that email.
C19_Witness ==
    \E i, j \in OtpReqIds, u \in DOMAIN users :
        /\ i < j
        /\ otpReqs[i].kind = "reset" /\ ~otpReqs[i].verified /\ otpReqs[i].passwords_ok
        /\ otpReqs[i].resp = OtpResp(400, "Invalid or expired OTP")
        /\ otpReqs[j].kind = "reset" /\ otpReqs[j].verified
        /\ otpReqs[j].resp.status = 200
        /\ otpReqs[j].email = otpReqs[i].email
        /\ users[u].email = otpReqs[j].email
        /\ users[u].hashed_password = hash_password(otpReqs[j].password)
        /\ users[u].hashed_password # hash_password(StrongPw)

\* The account a login request names passes every test of authenticate_user:
\* the email is registered, the row has a password hash, the password of the
\* request is the one that was hashed, and the row is active.
LoginAdmits(req) ==
    \E u \in UserIds :
        /\ users[u].email = req.email
        /\ users[u].hashed_password # "None"
        /\ users[u].hashed_password = hash_password(req.password)
        /\ users[u].is_active

\* The step is login request r running authenticate_user's tests.
LoginTested(r) == authReqs[r].pc = "login_read" /\ authReqs'[r].pc # "login_read"

\* The step answers request r with a token.
TokenReturned(r) ==
    /\ Answered(r)
    /\ authReqs'[r].resp.token # NoToken

\* C20: when login tests the credentials, it goes on to the token only if a
\* user with the given email exists, has a stored password hash, the password
\* verifies against that hash and the user is active, and in every other case
\* it answers 401 "Invalid email or password" and changes no user row; a login
\* answered with a token is one that passed these tests, the token is that
\* user's, and only that user's last_login has changed.
C20_LoginOnlyWithValidCredentials ==
    [][\A r \in ReqIds :
          authReqs[r].kind = "login" =>
              /\ LoginTested(r) =>
                    IF LoginAdmits(authReqs[r])
                    THEN /\ authReqs'[r].pc = "login_commit"
                         /\ users[authReqs'[r].uid].email = authReqs[r].email
                         /\ users' = users
                    ELSE /\ authReqs'[r].pc = "done"
                         /\ authReqs'[r].resp = Resp(401, "Invalid email or password")
                         /\ users' = users
              /\ TokenReturned(r) =>
                    /\ authReqs[r].pc = "login_commit"
                    /\ authReqs'[r].resp.status = 200
                    /\ HasAppToken(authReqs'[r].resp, authReqs[r].uid)
                    /\ users[authReqs[r].uid].email = authReqs[r].email
                    /\ \A u \in UserIds :
                          u # authReqs[r].uid => users'[u] = users[u]
              /\ (Answered(r) /\ authReqs'[r].resp.status # 200) =>
                    /\ authReqs'[r].resp = Resp(401, "Invalid email or password")
                    /\ users' = users]_vars

\* C20 witness: one login with the right password was refused with 401
\* because the account is inactive, its last_login untouched, and another
\* login was answered with a token.
C20_Witness ==
    \E r, q \in ReqIds :
        /\ authReqs[r].kind = "login" /\ authReqs[r].pc = "done"
        /\ authReqs[r].resp = Resp(401, "Invalid email or password")
        /\ \E u \in UserIds :
              /\ users[u].email = authReqs[r].email
              /\ users[u].hashed_password = hash_password(authReqs[r].password)
              /\ ~users[u].is_active
              /\ users[u].last_login # authReqs[r].stamp
        /\ authReqs[q].kind = "login" /\ authReqs[q].pc = "done"
        /\ authReqs[q].resp.status = 200
        /\ users[authReqs[q].uid].last_login = authReqs[q].stamp

\* A login was refused with 401 for a registered account without a password
\* hash.
C20_NoHashRefused ==
    \E r \in ReqIds :
        /\ authReqs[r].kind = "login" /\ authReqs[r].pc = "done"
        /\ authReqs[r].resp = Resp(401, "Invalid email or password")
        /\ \E u \in UserIds :
              users[u].email = authReqs[r].email /\ users[u].hashed_password = "None"

\* The process_media_file jobs for a media file that are scheduled as a
\* background task or running.
JobsInFlight(media_file_id) ==
    {e \in ExecIds : execs[e].media = media_file_id /\ execs[e].pc \in {"scheduled", "running"}}

\* The step answers a process-media request of the file's owner for a stored
\* file.
ProcessMediaAnswered(media_file_id) ==
    /\ Len(aiReqs') = Len(aiReqs) + 1
    /\ aiReqs'[Len(aiReqs')].kind = "process-media"
    /\ aiReqs'[Len(aiReqs')].code = 200
    /\ aiReqs'[Len(aiReqs')].media_file_id = media_file_id

\* C21 (as claimed): a process-media request without force_reprocess that
\* arrives while a job for the same media file is scheduled or running is
\* answered "Media file is already being processed" and starts no job, so
\* that without force_reprocess at most one job per media file is scheduled
\* or running at a time.
C21_NoSecondJobWithoutForce ==
    [][\A m \in MediaIds :
          /\ (ProcessMediaAnswered(m)
              /\ ~aiReqs'[Len(aiReqs')].force_reprocess
              /\ JobsInFlight(m) # {}) =>
                 /\ aiReqs'[Len(aiReqs')].message = "Media file is already being processed"
                 /\ execs' = execs
          /\ ((\A q \in DOMAIN aiReqs' : ~aiReqs'[q].force_reprocess) =>
                 Cardinality(JobsInFlight(m)') <= 1)]_vars

\* C22 (as claimed): whenever some process_media_file execution for a media
\* file has registered it in active_jobs and has not yet returned,
\* get_processing_status reports is_active = True for that file, also when
\* two executions for the same file overlap.
C22_ActiveWhileRunning ==
    \A e \in ExecIds :
        execs[e].pc = "running" =>
            /\ get_processing_status(execs[e].media).found
            /\ get_processing_status(execs[e].media).is_active

\* The execution a batch started for the i-th of its input files.
TaskOf(b, i) ==
    CHOOSE e \in ExecsOfBatch(b) : Cardinality({x \in ExecsOfBatch(b) : x < e}) = i - 1

\* A batch has one execution per input file, for that file; at most 3 of them
\* are in progress; and once it has returned, every execution has returned
\* and the results are those of its n executions in input order.
BatchRunsEachFileOnce(b) ==
    LET files == batches[b].files IN
    /\ Cardinality(ExecsOfBatch(b)) = Len(files)
    /\ \A i \in DOMAIN files : execs[TaskOf(b, i)].media = files[i]
    /\ Cardinality(InProgress(ExecsOfBatch(b))) <= 3
    /\ batches[b].returned =>
          /\ \A e \in ExecsOfBatch(b) : execs[e].pc = "done"
          /\ Len(batches[b].results) = Len(files)
          /\ \A i \in DOMAIN files :
                /\ batches[b].results[i].media_file_id = files[i]
                /\ batches[b].results[i].processing_status = execs[TaskOf(b, i)].result.processing_status
                /\ batches[b].results[i].errors = execs[TaskOf(b, i)].result.errors

\* An execution moves from waiting to running to done and never back, and
\* what it returned stays.
ExecutedOnce(e) ==
    /\ execs[e].pc = "running" => execs'[e].pc \in {"running", "done"}
    /\ execs[e].pc = "done" => execs'[e] = execs[e]
    /\ execs'[e].media = execs[e].media /\ execs'[e].batch = execs[e].batch

\* C23: within a single batch_process_media call over n media files,
\* process_media_file is executed exactly once per input file, never more
\* than 3 of these executions are in progress at the same moment, and under
\* fair scheduling the call returns a list of n results in input order.
C23_BatchOncePerFileCappedReturns ==
    /\ [](\A b \in BatchIds : BatchRunsEachFileOnce(b))
    /\ [][\A e \in ExecIds : ExecutedOnce(e)]_vars
    /\ \A b \in 1..NumBatches :
          (b \in BatchIds) ~> (b \in BatchIds /\ batches[b].returned)

\* C23 witness: a batch over 4 files, not all the same, has returned its 4
\* results, one of them from the exception handler and one completed, while
\* the semaphore had held the fourth execution back.
C23_Witness ==
    \E b \in BatchIds :
        /\ batches[b].returned
        /\ Len(batches[b].files) = 4
        /\ batches[b].files[1] # batches[b].files[2]
        /\ Len(batches[b].results) = 4
        /\ batches[b].results[1].processing_status = "error"
        /\ batches[b].results[4].processing_status = "completed"

\* The job_history records with status "completed".
CompletedJobs == {i \in DOMAIN job_history : job_history[i].status = "completed"}

\* The answers of the health endpoint.
HealthAnswers == {q \in DOMAIN aiReqs : aiReqs[q].kind = "health"}

\* C24: get_system_stats reports system_status "operational" exactly when
\* strictly more than 80% of the records in job_history have status
\* "completed" and "degraded" otherwise, in particular "degraded" when
\* job_history is empty; total_processed equals the length of job_history and
\* active_jobs the size of the active-job dictionary. The health endpoint
\* answers "healthy" for "operational" and "degraded" otherwise.
C24_OperationalAbove80Percent ==
    \A q \in HealthAnswers :
        LET stats == aiReqs[q].stats IN
        /\ stats.system_status \in {"operational", "degraded"}
        /\ stats.system_status = "operational" <=>
              /\ job_history # <<>>
              /\ 100 * Cardinality(CompletedJobs) > 80 * Len(job_history)
        /\ job_history = <<>> => stats.system_status = "degraded"
        /\ stats.total_processed = Len(job_history)
        /\ stats.active_jobs = Cardinality(DOMAIN active_jobs)
        /\ aiReqs[q].status = "healthy" <=> stats.system_status = "operational"
        /\ aiReqs[q].status \in {"healthy", "degraded"}

\* C24 witness: with exactly 4 of 5 records completed (80%) and two active
\* jobs the answer is "degraded".
C24_Witness ==
    /\ Len(job_history) = 5
    /\ Cardinality(CompletedJobs) = 4
    /\ Cardinality(DOMAIN active_jobs) = 2
    /\ \E q \in HealthAnswers :
          /\ aiReqs[q].stats.system_status = "degraded"
          /\ aiReqs[q].stats.total_processed = 5
          /\ aiReqs[q].stats.active_jobs = 2

\* All 5 of 5 records completed: the answer is "operational".
C24_OperationalReached ==
    /\ Len(job_history) = 5
    /\ Cardinality(CompletedJobs) = 5
    /\ \E q \in HealthAnswers : aiReqs[q].stats.system_status = "operational"

\* An empty history: the answer is "degraded".
C24_EmptyDegradedReached ==
    /\ job_history = <<>>
    /\ \E q \in HealthAnswers : aiReqs[q].stats.system_status = "degraded"

\* The step answers an update_asset request that passed the bearer check and
\* addresses an existing asset with matching workspace and type.
UpdateOfExistingAsset ==
    /\ Len(apiReqs') = Len(apiReqs) + 1
    /\ apiReqs'[Len(apiReqs')].endpoint = "update_asset"
    /\ HTTPBearer(apiReqs'[Len(apiReqs')].cred)
    /\ apiReqs'[Len(apiReqs')].item_id \in DOMAIN assets
    /\ assets[apiReqs'[Len(apiReqs')].item_id].workspace_id = apiReqs'[Len(apiReqs')].workspace_id
    /\ "asset_type" \in DOMAIN apiReqs'[Len(apiReqs')]
    /\ assets[apiReqs'[Len(apiReqs')].item_id].type = apiReqs'[Len(apiReqs')].asset_type

\* C25 (as claimed): update_asset on an existing asset with matching workspace
\* and type is answered with the updated asset (200), the stored url and
\* metadata are the request's where it provides them, and every other field
\* and every other asset is as before, so that a following get_asset reads
\* these values.
C25_UpdateReplacesProvidedFields ==
    [][UpdateOfExistingAsset =>
          LET req == apiReqs'[Len(apiReqs')]
              a   == req.item_id
          IN  /\ req.status = 200
              /\ DOMAIN assets' = DOMAIN assets
              /\ assets'[a] = [assets[a] EXCEPT
                                  !.url = IF req.url # "None" THEN req.url ELSE @,
                                  !.asset_metadata = IF req.asset_metadata # "None"
                                                     THEN req.asset_metadata ELSE @]
              /\ \A x \in DOMAIN assets : x # a => assets'[x] = assets[x]]_vars

====
